---- MODULE Spec2Model ----
(***************************************************************************)
(* Resorts_data: the disk cache, the provider clients, the fallback        *)
(* orchestrator and the daily-to-monthly aggregator, as state machines.    *)
(*                                                                         *)
(* Python values are records tagged by "type" (None is JSON null), raised  *)
(* exceptions are records [cls, msg, oid] (oid stands for the identity of  *)
(* the exception object), and a call's outcome is [kind |-> "return", ...] *)
(* or [kind |-> "raise", error |-> e].                                     *)
(***************************************************************************)
EXTENDS Integers, Sequences, FiniteSets, TLC

VARIABLES
    files,        \* the cache directory: path -> content of the file there
    now,          \* time.time(), in seconds
    ttl_seconds,  \* DiskCache.ttl_seconds
    stored,       \* history: path -> last value DiskCache.set wrote there
    last,         \* the last DiskCache call and what it gave back
    calls,        \* the client fetches made by the last provider call
    pc,           \* _fetch_with_fallbacks: "idle", "loop", "returned", "raised"
    request,      \* _fetch_with_fallbacks: its arguments
    index,        \* _fetch_with_fallbacks: the place of the loop in the list
    errors,       \* _fetch_with_fallbacks: errors, the (provider_name, exc) list
    attempts,     \* history: each provider fetch made and what it gave back
    outcome,      \* _fetch_with_fallbacks: what the call gave back
    daily,        \* monthly_mean_from_daily: the daily frame handed in
    monthly,      \* monthly_mean_from_daily: what the call gave back
    inputs,       \* the arguments of a call of the compute or score layer
    output        \* what that call gave back

cacheVars == <<files, now, ttl_seconds, stored>>
orchVars == <<pc, request, index, errors, attempts, outcome>>
aggVars == <<daily, monthly, inputs, output>>
vars == <<files, now, ttl_seconds, stored, last, calls, pc, request, index,
          errors, attempts, outcome, daily, monthly, inputs, output>>

-----------------------------------------------------------------------------
(* Bounds of the model.                                                    *)

\* days the clock may advance past its initial value
MaxDays == 2

\* the longest list of fallback providers a configuration gives
MaxFallbacks == 2

\* seconds in a day (ttl_days * 86400)
SecondsPerDay == 86400

\* the clock's initial value: a present-day epoch time, far above any TTL
StartNow == 20000 * SecondsPerDay

\* the values of ttl_days the configurations give
TtlDays == {0, 1}

-----------------------------------------------------------------------------
(* Python / JSON values.                                                   *)

None == [type |-> "null"]
JNumber(n) == [type |-> "number", n |-> n]
JString(s) == [type |-> "string", s |-> s]
JArray == [type |-> "array"]  \* the empty list
JObject(f) == [type |-> "object", fields |-> f]

\* dict.get(key, default)
DictGet(d, key, default) ==
    IF key \in DOMAIN d.fields THEN d.fields[key] ELSE default

Return(v) == [kind |-> "return", value |-> v]
Raise(e) == [kind |-> "raise", error |-> e]
Error(cls, msg, oid) == [cls |-> cls, msg |-> msg, oid |-> oid]

\* the provider responses: a JSON object with a daily block
Payload(d) == JObject([daily |-> JString(d)])
Payloads == {Payload("series_a"), Payload("series_b")}

\* bool(x) of a value the cache gives back
Truthy(v) ==
    CASE v.type = "null" -> FALSE
      [] v.type = "number" -> v.n # 0
      [] v.type = "string" -> v.s # ""
      [] v.type = "array" -> FALSE
      [] v.type = "object" -> DOMAIN v.fields # {}

-----------------------------------------------------------------------------
(* DiskCache                                                               *)

\* what a file of the cache directory can hold
NoFile == [kind |-> "nofile"]
Unreadable == [kind |-> "unreadable"]
InvalidJson == [kind |-> "invalid_json"]
JsonFile(v) == [kind |-> "json", value |-> v]

RECURSIVE Replace(_, _, _)
Replace(s, old, new) ==
    IF s = <<>> THEN <<>>
    ELSE <<IF Head(s) = old THEN new ELSE Head(s)>> \o Replace(Tail(s), old, new)

HashKey(key) == <<"sha256", key>>

PathFor(namespace, key) == <<Replace(namespace, "/", "_"), HashKey(key)>>

\* json.loads(path.read_text()) of a file that exists
ReadJson(file) ==
    CASE file.kind = "unreadable" -> Raise(Error("OSError", "read_text", 0))
      [] file.kind = "invalid_json" -> Raise(Error("JSONDecodeError", "", 0))
      [] file.kind = "json" -> Return(file.value)

\* a faulty variant: ttl_seconds = 0 is not taken as "never expire"
DiskCacheGetTtlOff(file, ttl, t) ==
    IF file.kind = "nofile" THEN Return(None)
    ELSE LET loaded == ReadJson(file) IN
      IF loaded.kind = "raise"
      THEN IF loaded.error.cls = "JSONDecodeError" THEN Return(None) ELSE loaded
      ELSE LET payload == loaded.value IN
        IF payload.type # "object"
        THEN Raise(Error("AttributeError", "get", 0))
        ELSE LET ts == DictGet(payload, "timestamp", JNumber(0)) IN
          IF ts.type # "number" THEN Raise(Error("TypeError", "-", 0))
          ELSE IF t - ts.n > ttl THEN Return(None)
          ELSE Return(DictGet(payload, "data", None))

\* a faulty variant: an entry expires when its age reaches the TTL
DiskCacheGetInclusive(file, ttl, t) ==
    IF file.kind = "nofile" THEN Return(None)
    ELSE LET loaded == ReadJson(file) IN
      IF loaded.kind = "raise"
      THEN IF loaded.error.cls = "JSONDecodeError" THEN Return(None) ELSE loaded
      ELSE LET payload == loaded.value IN
        IF payload.type # "object"
        THEN Raise(Error("AttributeError", "get", 0))
        ELSE LET ts == DictGet(payload, "timestamp", JNumber(0)) IN
          IF ttl # 0 /\ ts.type # "number" THEN Raise(Error("TypeError", "-", 0))
          ELSE IF ttl # 0 /\ t - ts.n >= ttl THEN Return(None)
          ELSE Return(DictGet(payload, "data", None))

\* DiskCache.get on the file at the key's path, with ttl_seconds = ttl at time t
DiskCacheGet(file, ttl, t) ==
    IF file.kind = "nofile" THEN Return(None)
    ELSE LET loaded == ReadJson(file) IN
      IF loaded.kind = "raise"
      THEN IF loaded.error.cls = "JSONDecodeError" THEN Return(None) ELSE loaded
      ELSE LET payload == loaded.value IN
        IF payload.type # "object"
        THEN Raise(Error("AttributeError", "get", 0))
        ELSE LET ts == DictGet(payload, "timestamp", JNumber(0)) IN
          IF ttl # 0 /\ ts.type # "number" THEN Raise(Error("TypeError", "-", 0))
          ELSE IF ttl # 0 /\ t - ts.n > ttl THEN Return(None)
          ELSE Return(DictGet(payload, "data", None))

\* a faulty variant: the entry is written without its timestamp
DiskCacheSetNoStamp(fs, namespace, key, data, t) ==
    [fs EXCEPT ![PathFor(namespace, key)] =
        JsonFile(JObject([data |-> data]))]

\* DiskCache.set: the files after writing data under the key at time t
DiskCacheSet(fs, namespace, key, data, t) ==
    [fs EXCEPT ![PathFor(namespace, key)] =
        JsonFile(JObject([timestamp |-> JNumber(t), data |-> data]))]

-----------------------------------------------------------------------------
(* Locations, periods and cache keys.                                      *)

\* the cache namespaces the clients use
NsAirRain == <<"a", "i", "r", "_", "r", "a", "i", "n">>
NsSea == <<"s", "e", "a", "_", "s", "s", "t">>
NsWind == <<"w", "i", "n", "d">>
NsWave == <<"w", "a", "v", "e">>

\* a Location: the wave point of Loc1 is offshore, away from its primary
\* coordinate; Loc2 has no wave_point entry and takes its own coordinate
Loc1 == [location_id |-> "loc1", lat |-> 10, lon |-> 20,
         wave_point |-> [lat |-> 11, lon |-> 21]]
Loc2 == [location_id |-> "loc2", lat |-> 30, lon |-> 40,
         wave_point |-> [lat |-> 30, lon |-> 40]]

\* the period of a run: date(start_year, 1, 1) .. date(end_year, 12, 31)
StartDate == <<2020, 1, 1>>
EndDate == <<2021, 12, 31>>

BuildCacheKey(source_name, source_version, location_id, lat, lon, start_date, end_date, variables) ==
    <<source_name, source_version, location_id, lat, lon,
      start_date, end_date, variables, "units=metric">>

-----------------------------------------------------------------------------
(* DiskCache on its own: get, set and the clock.                           *)

NoCall == [op |-> "none"]

UnitNamespaces == {NsWind, NsWave}
UnitKeys ==
    { BuildCacheKey("open_meteo_archive", "v1", Loc1.location_id, Loc1.lat,
                    Loc1.lon, StartDate, EndDate, "wind_speed_10m_mean"),
      BuildCacheKey("open_meteo_archive", "v1", Loc2.location_id, Loc2.lat,
                    Loc2.lon, StartDate, EndDate, "wind_speed_10m_mean") }
UnitPaths == { PathFor(ns, k) : ns \in UnitNamespaces, k \in UnitKeys }

Idle ==
    /\ calls = <<>>
    /\ pc = "idle" /\ request = None /\ index = 0
    /\ errors = <<>> /\ attempts = <<>>
    /\ outcome = None
    /\ daily = {} /\ monthly = None
    /\ inputs = None /\ output = None

InitCache ==
    /\ files = [p \in UnitPaths |-> NoFile]
    /\ now = StartNow
    /\ ttl_seconds \in { d * SecondsPerDay : d \in TtlDays }
    /\ stored = [p \in UnitPaths |-> None]
    /\ last = NoCall
    /\ Idle

\* cache.set(namespace, key, data)
CacheSet(namespace, key, data) ==
    /\ files' = DiskCacheSet(files, namespace, key, data, now)
    /\ stored' = [stored EXCEPT ![PathFor(namespace, key)] =
                     [type |-> "entry", data |-> data, at |-> now]]
    /\ last' = [op |-> "set", namespace |-> namespace, key |-> key]
    /\ UNCHANGED <<now, ttl_seconds, calls, orchVars, aggVars>>

\* cache.get(namespace, key)
CacheGet(namespace, key) ==
    /\ last' = [op |-> "get", namespace |-> namespace, key |-> key,
                result |-> DiskCacheGet(files[PathFor(namespace, key)],
                                        ttl_seconds, now)]
    /\ UNCHANGED <<cacheVars, calls, orchVars, aggVars>>

\* a day passes between two calls
Tick ==
    /\ now < StartNow + MaxDays * SecondsPerDay
    /\ now' = now + SecondsPerDay
    /\ last' = NoCall
    /\ calls' = <<>>
    /\ UNCHANGED <<files, ttl_seconds, stored, orchVars, aggVars>>

NextCache ==
    \/ \E ns \in UnitNamespaces, k \in UnitKeys, d \in Payloads : CacheSet(ns, k, d)
    \/ \E ns \in UnitNamespaces, k \in UnitKeys : CacheGet(ns, k)
    \/ Tick

SpecCache == InitCache /\ [][NextCache]_vars

\* C8: DiskCache.get gives None for an entry older than the TTL although its
\* file is still there; with a TTL of 0 an entry never expires; within the
\* TTL a get after set(namespace, key, v) gives v, whatever was set under
\* the other namespaces and keys; and a key nothing was set under is absent.
C8_GetAfterSet ==
    last.op = "get" =>
        LET p == PathFor(last.namespace, last.key)
            e == stored[p]
        IN  /\ e.type = "null" => last.result = Return(None)
            /\ e.type = "entry" =>
                  /\ files[p].kind = "json"
                  /\ (ttl_seconds # 0 /\ now - e.at > ttl_seconds)
                        => last.result = Return(None)
                  /\ (ttl_seconds = 0 \/ now - e.at <= ttl_seconds)
                        => last.result = Return(e.data)

\* an entry written two days ago under a TTL of one day is absent, its file
\* is there, and another key holds an entry of its own
C8_Witness ==
    /\ last.op = "get"
    /\ LET p == PathFor(last.namespace, last.key) IN
          /\ stored[p].type = "entry"
          /\ ttl_seconds = SecondsPerDay
          /\ now - stored[p].at = 2 * SecondsPerDay
          /\ files[p].kind = "json"
          /\ last.result = Return(None)
          /\ \E q \in UnitPaths : q # p /\ stored[q].type = "entry"

-----------------------------------------------------------------------------
(* DiskCache.get on every content a cache file can hold.                   *)

Absent == [type |-> "absent"]

\* a JSON object with the keys timestamp and data, each present or not
Entry(ts, data) ==
    JObject([k \in (IF ts = Absent THEN {} ELSE {"timestamp"}) \cup
                   (IF data = Absent THEN {} ELSE {"data"}) |->
                IF k = "timestamp" THEN ts ELSE data])

FileContents ==
    {NoFile, Unreadable, InvalidJson}
    \cup { JsonFile(v) : v \in {None, JNumber(7), JString("x"), JArray} }
    \cup { JsonFile(Entry(ts, d)) :
             ts \in {Absent, None, JString("yesterday"), JNumber(StartNow),
                     JNumber(StartNow - 2 * SecondsPerDay)},
             d \in {Absent, None} \cup Payloads }

\* the file is no well-formed entry {timestamp: number, data: ...}
Malformed(file) ==
    \/ file.kind \in {"unreadable", "invalid_json"}
    \/ /\ file.kind = "json"
       /\ \/ file.value.type # "object"
          \/ "timestamp" \notin DOMAIN file.value.fields
          \/ "data" \notin DOMAIN file.value.fields
          \/ file.value.fields["timestamp"].type # "number"

InitGet ==
    /\ \E p \in UnitPaths, c \in FileContents :
          files = [q \in UnitPaths |-> IF q = p THEN c ELSE NoFile]
    /\ now = StartNow
    /\ ttl_seconds \in { d * SecondsPerDay : d \in TtlDays }
    /\ stored = [p \in UnitPaths |-> None]
    /\ last = NoCall
    /\ Idle

NextGet == \E ns \in UnitNamespaces, k \in UnitKeys : CacheGet(ns, k)

SpecGet == InitGet /\ [][NextGet]_vars

\* C9: whatever a cache file holds (invalid JSON, JSON that is no object, an
\* object without timestamp or data, a timestamp that is no number, a file
\* that cannot be read), DiskCache.get gives None and raises nothing.
C9_MalformedIsAbsent ==
    (last.op = "get" /\ Malformed(files[PathFor(last.namespace, last.key)]))
        => last.result = Return(None)

-----------------------------------------------------------------------------
(* Provider clients.                                                       *)

\* what requests.get / raise_for_status / response.json can do: hand back
\* the JSON body, or raise a requests.RequestException
RemoteOk(data) == [ok |-> TRUE, data |-> data]
RemoteFail(error) == [ok |-> FALSE, error |-> error]
RequestErrors(oid) ==
    { Error("ConnectionError", "connection refused", oid),
      Error("Timeout", "", oid) }
Remotes(oid) ==
    { RemoteOk(d) : d \in Payloads } \cup { RemoteFail(e) : e \in RequestErrors(oid) }

FormatError(error) ==
    IF error = None THEN None
    ELSE IF error.msg # "" THEN JString(<<error.cls, ": ", error.msg>>)
    ELSE JString(<<error.cls>>)

BuildSourceMeta(source_name, source_version, start_date, end_date, coordinates, cached, cache_fallback, error) ==
    [ source |-> source_name,
      version |-> source_version,
      period |-> [requested |-> [start |-> start_date, end |-> end_date],
                  actual |-> [start |-> start_date, end |-> end_date]],
      requested_period |-> [start |-> start_date, end |-> end_date],
      actual_period |-> [start |-> start_date, end |-> end_date],
      coordinates |-> coordinates,
      coverage |-> None,
      cached |-> cached,
      fallback_used |-> cache_fallback,
      cache_fallback |-> cache_fallback,
      error |-> FormatError(error) ]

\* _to_dataframe and its kin: the daily block of a payload as a frame
ToDataFrame(columns, payload) ==
    [columns |-> columns, daily |-> DictGet(payload, "daily", JObject(<<>>))]

\* the four clients differ in these: namespace, source, variable, frame
\* columns and the coordinate they ask for
AirRainClient ==
    [ name |-> "air_rain", namespace |-> NsAirRain,
      source_name |-> "open_meteo_archive", source_version |-> "v1",
      variables |-> "temperature_2m_max,precipitation_sum",
      columns |-> <<"date", "tmax_c", "prcp_mm">>, wave_point |-> FALSE ]
SeaClient ==
    [ name |-> "sea", namespace |-> NsSea,
      source_name |-> "open_meteo_marine", source_version |-> "v1",
      variables |-> "sea_surface_temperature",
      columns |-> <<"date", "sst_c">>, wave_point |-> FALSE ]
WindClient ==
    [ name |-> "wind", namespace |-> NsWind,
      source_name |-> "open_meteo_archive", source_version |-> "v1",
      variables |-> "wind_speed_10m_mean",
      columns |-> <<"date", "wind_ms">>, wave_point |-> FALSE ]
WaveClient ==
    [ name |-> "wave", namespace |-> NsWave,
      source_name |-> "open_meteo_marine", source_version |-> "v1",
      variables |-> "wave_height_mean",
      columns |-> <<"date", "wave_hs_m">>, wave_point |-> TRUE ]
Clients == {AirRainClient, SeaClient, WindClient, WaveClient}

Coordinates(client, location) ==
    IF client.wave_point
    THEN [lat |-> location.wave_point.lat, lon |-> location.wave_point.lon]
    ELSE [lat |-> location.lat, lon |-> location.lon]

CacheKey(client, location) ==
    BuildCacheKey(client.source_name, client.source_version, location.location_id,
                  Coordinates(client, location).lat, Coordinates(client, location).lon,
                  StartDate, EndDate, client.variables)

\* cache._path_for(namespace, cache_key) of each client and location
Locations == {Loc1, Loc2}
Paths ==
    [c \in Clients, l \in Locations |-> PathFor(c.namespace, CacheKey(c, l))]

ClientPath(client, location) == Paths[client, location]

ClientMeta(client, location, cached, cache_fallback, error) ==
    BuildSourceMeta(client.source_name, client.source_version, StartDate, EndDate,
                    Coordinates(client, location), cached, cache_fallback, error)

\* what one client fetch did: its arguments, what cache.get gave it, whether
\* it called the remote provider (and what that did), what it gave back and
\* the cache file of its key before and after it
Call(client, location, refresh, got, remote, result, before, after) ==
    [ client |-> client.name, path |-> ClientPath(client, location),
      refresh |-> refresh, got |-> got, remote |-> remote, result |-> result,
      before |-> before[ClientPath(client, location)],
      after |-> after[ClientPath(client, location)], files |-> after ]

NoRemote == [ok |-> FALSE, skipped |-> TRUE]
Called(call) == "skipped" \notin DOMAIN call.remote

\* a faulty variant: a cache hit is served although refresh is set
ClientFetchIgnoresRefresh(client, location, fs, ttl, t, refresh, remote) ==
    LET got == DiskCacheGet(fs[ClientPath(client, location)], ttl, t) IN
    IF Truthy(got.value)
    THEN Call(client, location, refresh, got, NoRemote,
              Return([df |-> ToDataFrame(client.columns, got.value),
                      meta |-> ClientMeta(client, location, TRUE, FALSE, None)]),
              fs, fs)
    ELSE IF remote.ok
    THEN Call(client, location, refresh, got, remote,
              Return([df |-> ToDataFrame(client.columns, remote.data),
                      meta |-> ClientMeta(client, location, FALSE, FALSE, None)]),
              fs, DiskCacheSet(fs, client.namespace, CacheKey(client, location), remote.data, t))
    ELSE Call(client, location, refresh, got, remote, Raise(remote.error), fs, fs)

\* a faulty variant: the response of the remote provider is not stored
ClientFetchNoStore(client, location, fs, ttl, t, refresh, remote) ==
    LET got == DiskCacheGet(fs[ClientPath(client, location)], ttl, t) IN
    IF Truthy(got.value) /\ ~refresh
    THEN Call(client, location, refresh, got, NoRemote,
              Return([df |-> ToDataFrame(client.columns, got.value),
                      meta |-> ClientMeta(client, location, TRUE, FALSE, None)]),
              fs, fs)
    ELSE IF remote.ok
    THEN Call(client, location, refresh, got, remote,
              Return([df |-> ToDataFrame(client.columns, remote.data),
                      meta |-> ClientMeta(client, location, FALSE, FALSE, None)]),
              fs, fs)
    ELSE IF Truthy(got.value)
    THEN Call(client, location, refresh, got, remote,
              Return([df |-> ToDataFrame(client.columns, got.value),
                      meta |-> ClientMeta(client, location, TRUE, TRUE, remote.error)]),
              fs, fs)
    ELSE Call(client, location, refresh, got, remote, Raise(remote.error), fs, fs)

\* a faulty variant: a remote failure is raised although the cache has an entry
ClientFetchNoDegraded(client, location, fs, ttl, t, refresh, remote) ==
    LET got == DiskCacheGet(fs[ClientPath(client, location)], ttl, t) IN
    IF Truthy(got.value) /\ ~refresh
    THEN Call(client, location, refresh, got, NoRemote,
              Return([df |-> ToDataFrame(client.columns, got.value),
                      meta |-> ClientMeta(client, location, TRUE, FALSE, None)]),
              fs, fs)
    ELSE IF remote.ok
    THEN Call(client, location, refresh, got, remote,
              Return([df |-> ToDataFrame(client.columns, remote.data),
                      meta |-> ClientMeta(client, location, FALSE, FALSE, None)]),
              fs, DiskCacheSet(fs, client.namespace, CacheKey(client, location), remote.data, t))
    ELSE Call(client, location, refresh, got, remote, Raise(remote.error), fs, fs)

\* a faulty variant: after a remote failure the entry of the file is served
\* whatever its age
ClientFetchStaleFallback(client, location, fs, ttl, t, refresh, remote) ==
    LET got == DiskCacheGet(fs[ClientPath(client, location)], ttl, t)
        kept == DiskCacheGet(fs[ClientPath(client, location)], 0, t)
    IN
    IF got.kind = "raise"
    THEN Call(client, location, refresh, got, NoRemote, got, fs, fs)
    ELSE IF Truthy(got.value) /\ ~refresh
    THEN Call(client, location, refresh, got, NoRemote,
              Return([df |-> ToDataFrame(client.columns, got.value),
                      meta |-> ClientMeta(client, location, TRUE, FALSE, None)]),
              fs, fs)
    ELSE IF remote.ok
    THEN Call(client, location, refresh, got, remote,
              Return([df |-> ToDataFrame(client.columns, remote.data),
                      meta |-> ClientMeta(client, location, FALSE, FALSE, None)]),
              fs, DiskCacheSet(fs, client.namespace, CacheKey(client, location), remote.data, t))
    ELSE IF kept.kind = "return" /\ Truthy(kept.value)
    THEN Call(client, location, refresh, got, remote,
              Return([df |-> ToDataFrame(client.columns, kept.value),
                      meta |-> ClientMeta(client, location, TRUE, TRUE, remote.error)]),
              fs, fs)
    ELSE Call(client, location, refresh, got, remote, Raise(remote.error), fs, fs)

\* fetch_air_rain_daily, fetch_sea_surface_temperature, _fetch_wind and
\* _fetch_wave: one body, with the client's constants
ClientFetch(client, location, fs, ttl, t, refresh, remote) ==
    LET got == DiskCacheGet(fs[ClientPath(client, location)], ttl, t) IN
    IF got.kind = "raise"
    THEN Call(client, location, refresh, got, NoRemote, got, fs, fs)
    ELSE IF Truthy(got.value) /\ ~refresh
    THEN Call(client, location, refresh, got, NoRemote,
              Return([df |-> ToDataFrame(client.columns, got.value),
                      meta |-> ClientMeta(client, location, TRUE, FALSE, None)]),
              fs, fs)
    ELSE IF remote.ok
    THEN Call(client, location, refresh, got, remote,
              Return([df |-> ToDataFrame(client.columns, remote.data),
                      meta |-> ClientMeta(client, location, FALSE, FALSE, None)]),
              fs, DiskCacheSet(fs, client.namespace, CacheKey(client, location), remote.data, t))
    ELSE IF Truthy(got.value)
    THEN Call(client, location, refresh, got, remote,
              Return([df |-> ToDataFrame(client.columns, got.value),
                      meta |-> ClientMeta(client, location, TRUE, TRUE, remote.error)]),
              fs, fs)
    ELSE Call(client, location, refresh, got, remote, Raise(remote.error), fs, fs)

FetchAirRainDaily(location, fs, ttl, t, refresh, remote) ==
    ClientFetch(AirRainClient, location, fs, ttl, t, refresh, remote)

FetchSeaSurfaceTemperature(location, fs, ttl, t, refresh, remote) ==
    ClientFetch(SeaClient, location, fs, ttl, t, refresh, remote)

FetchWind(location, fs, ttl, t, refresh, remote) ==
    ClientFetch(WindClient, location, fs, ttl, t, refresh, remote)

FetchWave(location, fs, ttl, t, refresh, remote) ==
    ClientFetch(WaveClient, location, fs, ttl, t, refresh, remote)

\* pd.merge(wind_df, wave_df, on="date", how="outer")
Merge(left, right) ==
    [columns |-> left.columns \o Tail(right.columns),
     daily |-> [left |-> left.daily, right |-> right.daily]]

\* [err for err in (a, b) if err]
Present(a, b) ==
    (IF Truthy(a) THEN <<a>> ELSE <<>>) \o (IF Truthy(b) THEN <<b>> ELSE <<>>)

\* a faulty variant: cached as soon as one of the two fetches was cached
CombinedMetaEitherCached(wind_meta, wave_meta) ==
    [ source |-> "open_meteo",
      version |-> "v1",
      period |-> wind_meta.period,
      requested_period |-> wind_meta.requested_period,
      actual_period |-> wind_meta.actual_period,
      coordinates |-> [wind |-> wind_meta.coordinates, wave |-> wave_meta.coordinates],
      coverage |-> None,
      cached |-> (wind_meta.cached \/ wave_meta.cached),
      fallback_used |-> (wind_meta.fallback_used \/ wave_meta.fallback_used),
      cache_fallback |-> (wind_meta.cache_fallback \/ wave_meta.cache_fallback),
      error |-> IF Present(wind_meta.error, wave_meta.error) = <<>> THEN None
                ELSE [type |-> "list", items |-> Present(wind_meta.error, wave_meta.error)],
      components |-> [wind |-> wind_meta, wave |-> wave_meta] ]

\* lines 27-46 of OpenMeteoWindWave.fetch: the combined meta
CombinedMeta(wind_meta, wave_meta) ==
    [ source |-> "open_meteo",
      version |-> "v1",
      period |-> wind_meta.period,
      requested_period |-> wind_meta.requested_period,
      actual_period |-> wind_meta.actual_period,
      coordinates |-> [wind |-> wind_meta.coordinates, wave |-> wave_meta.coordinates],
      coverage |-> None,
      cached |-> (wind_meta.cached /\ wave_meta.cached),
      fallback_used |-> (wind_meta.fallback_used \/ wave_meta.fallback_used),
      cache_fallback |-> (wind_meta.cache_fallback \/ wave_meta.cache_fallback),
      error |-> IF Present(wind_meta.error, wave_meta.error) = <<>> THEN None
                ELSE [type |-> "list", items |-> Present(wind_meta.error, wave_meta.error)],
      components |-> [wind |-> wind_meta, wave |-> wave_meta] ]

\* what a provider call did: what it gave back, the cache files it left and
\* the client fetches it made
Done(result, fs, log) == [result |-> result, files |-> fs, calls |-> log]

\* the log keeps each fetch without the files it left
Logged(call) == [f \in DOMAIN call \ {"files"} |-> call[f]]

Single(call) == Done(call.result, call.files, <<Logged(call)>>)

\* OpenMeteoWindWave.fetch: wind at the primary coordinate, then wave at the
\* wave point; an exception of either leaves the method at once
OpenMeteoWindWaveFetch(location, fs, ttl, t, refresh, remote_wind, remote_wave) ==
    LET wind == FetchWind(location, fs, ttl, t, refresh, remote_wind) IN
    IF wind.result.kind = "raise" THEN Single(wind)
    ELSE LET wave == FetchWave(location, wind.files, ttl, t, refresh, remote_wave) IN
      IF wave.result.kind = "raise"
      THEN Done(wave.result, wave.files, <<Logged(wind), Logged(wave)>>)
      ELSE Done(Return([df |-> Merge(wind.result.value.df, wave.result.value.df),
                        meta |-> CombinedMeta(wind.result.value.meta,
                                              wave.result.value.meta)]),
                wave.files, <<Logged(wind), Logged(wave)>>)

\* Era5WindWave.fetch
Era5WindWaveFetch(fs, oid) ==
    Done(Raise(Error("NotImplementedError",
                     "ERA5 provider requires credentials/configuration.", oid)),
         fs, <<>>)

\* AIR_RAIN_PROVIDERS, SEA_PROVIDERS, WIND_WAVE_PROVIDERS
SourceKinds == {"air_rain", "sea_temp", "wind_wave"}
ProviderRegistry(source_kind) ==
    CASE source_kind = "air_rain" -> {"open_meteo_archive"}
      [] source_kind = "sea_temp" -> {"open_meteo_marine"}
      [] source_kind = "wind_wave" -> {"open_meteo", "era5"}

\* registry[provider_name](...) or registry[provider_name]().fetch(...)
ProviderFetch(source_kind, provider_name, location, fs, ttl, t, refresh, r1, r2, oid) ==
    CASE source_kind = "air_rain" ->
           Single(FetchAirRainDaily(location, fs, ttl, t, refresh, r1))
      [] source_kind = "sea_temp" ->
           Single(FetchSeaSurfaceTemperature(location, fs, ttl, t, refresh, r1))
      [] source_kind = "wind_wave" /\ provider_name = "open_meteo" ->
           OpenMeteoWindWaveFetch(location, fs, ttl, t, refresh, r1, r2)
      [] source_kind = "wind_wave" /\ provider_name = "era5" ->
           Era5WindWaveFetch(fs, oid)

-----------------------------------------------------------------------------
(* The provider clients on their own: fetches and the clock.               *)

\* the clients behind the providers of a source kind, and the cache files
\* they address
KindClients(source_kind) ==
    CASE source_kind = "air_rain" -> {AirRainClient}
      [] source_kind = "sea_temp" -> {SeaClient}
      [] source_kind = "wind_wave" -> {WindClient, WaveClient}

KindPaths(source_kind, location) ==
    { ClientPath(c, location) : c \in KindClients(source_kind) }

RECURSIVE Responses(_, _, _)
\* history: the responses of the remote provider, each under the path of
\* the request that got it
Responses(st, log, t) ==
    IF log = <<>> THEN st
    ELSE Responses(IF Called(Head(log)) /\ Head(log).remote.ok
                   THEN [st EXCEPT ![Head(log).path] =
                           [type |-> "entry", data |-> Head(log).remote.data, at |-> t]]
                   ELSE st,
                   Tail(log), t)

\* a run exercises the providers of one source kind, on the cache files of
\* that kind (the kinds share no cache file)
InitClient ==
    /\ \E k \in SourceKinds :
          /\ files = [p \in KindPaths(k, Loc1) |-> NoFile]
          /\ stored = [p \in KindPaths(k, Loc1) |-> None]
    /\ now = StartNow
    /\ ttl_seconds \in { d * SecondsPerDay : d \in TtlDays }
    /\ last = NoCall
    /\ Idle

\* the ways a call of a registered provider can go, one for each thing the
\* remote provider can do
ProviderOutcomes(source_kind, provider_name, location, fs, ttl, t, refresh, oid) ==
    { ProviderFetch(source_kind, provider_name, location, fs, ttl, t, refresh, r1, r2, oid) :
        r1 \in Remotes(oid), r2 \in Remotes(oid) }

\* one call of a registered provider, as _fetch_with_fallbacks makes it
Fetch(source_kind, provider_name, refresh) ==
    /\ KindPaths(source_kind, Loc1) = DOMAIN files
    /\ \E done \in ProviderOutcomes(source_kind, provider_name, Loc1, files,
                                  ttl_seconds, now, refresh, 0) :
         /\ files' = done.files
         /\ calls' = done.calls
         /\ stored' = Responses(stored, done.calls, now)
         /\ last' = [op |-> "fetch", source_kind |-> source_kind,
                     provider |-> provider_name, refresh |-> refresh,
                     result |-> done.result]
         /\ UNCHANGED <<now, ttl_seconds, orchVars, aggVars>>

NextClient ==
    \/ \E k \in SourceKinds, r \in BOOLEAN :
         \E n \in ProviderRegistry(k) : Fetch(k, n, r)
    \/ Tick

SpecClient == InitClient /\ [][NextClient]_vars

\* the file holds an entry whose age at time t is within the TTL
Unexpired(file, ttl, t) ==
    /\ file.kind = "json"
    /\ ~Malformed(file)
    /\ (ttl = 0 \/ t - file.value.fields["timestamp"].n <= ttl)

ColumnsOf(client_name) == (CHOOSE c \in Clients : c.name = client_name).columns

\* the fetch gave back the frame of data with these cache flags
Gave(call, data, cached, cache_fallback) ==
    /\ call.result.kind = "return"
    /\ call.result.value.df = ToDataFrame(ColumnsOf(call.client), data)
    /\ call.result.value.meta.cached = cached
    /\ call.result.value.meta.cache_fallback = cache_fallback

\* the fetch of the step found an unexpired entry and was not told to refresh
Hit(call) == ~call.refresh /\ Unexpired(files[call.path], ttl_seconds, now)

C5_Step ==
    last'.op = "fetch" =>
      /\ \A i \in DOMAIN calls' :
            Hit(calls'[i]) =>
              /\ Gave(calls'[i], files[calls'[i].path].value.fields["data"], TRUE, FALSE)
              /\ calls'[i].result.value.meta.error = None
              /\ ~Called(calls'[i])
              /\ files'[calls'[i].path] = files[calls'[i].path]
      /\ (\A i \in DOMAIN calls' : Hit(calls'[i])) => files' = files

\* C5: a fetch of any client (air/rain, sea, wind, wave) with refresh false
\* that finds an unexpired entry under its cache key gives back that entry's
\* data with cached=true and cache_fallback=false, does not call the remote
\* provider, and leaves the cache as it was.
C5_CacheHit == [][C5_Step]_vars

\* the composite wind/wave fetch served both of its fetches from the cache
C5_Witness ==
    /\ last.op = "fetch" /\ last.provider = "open_meteo"
    /\ Len(calls) = 2
    /\ \A i \in DOMAIN calls :
          /\ ~calls[i].refresh /\ ~Called(calls[i])
          /\ calls[i].before.kind = "json"
          /\ calls[i].result.kind = "return"
          /\ calls[i].result.value.meta.cached

C6_Step ==
    last'.op = "fetch" =>
      \A i \in DOMAIN calls' :
        LET c == calls'[i]
            e == stored[c.path]
        IN  /\ (Called(c) /\ c.remote.ok) =>
                  /\ Gave(c, c.remote.data, FALSE, FALSE)
                  /\ files'[c.path] = JsonFile(Entry(JNumber(now), c.remote.data))
            /\ (/\ ~c.refresh
                /\ e.type = "entry"
                /\ (ttl_seconds = 0 \/ now - e.at <= ttl_seconds)) =>
                  /\ ~Called(c)
                  /\ Gave(c, e.data, TRUE, FALSE)

\* C6: when the remote call of a fetch succeeds (refresh true or false) the
\* response is stored under the request's cache key and the fetch gives it
\* back with cached=false; a later fetch of the same request with refresh
\* false, within the TTL of the last response stored, gives that response
\* back with cached=true and does not call the remote provider.
C6_StoreThenHit == [][C6_Step]_vars

\* a response fetched on an earlier day is served from the cache
C6_Witness ==
    /\ last.op = "fetch"
    /\ \E i \in DOMAIN calls :
          /\ ~calls[i].refresh /\ ~Called(calls[i])
          /\ stored[calls[i].path].type = "entry"
          /\ stored[calls[i].path].at < now
          /\ Gave(calls[i], stored[calls[i].path].data, TRUE, FALSE)

\* the fetch of the step served the entry of the file after a remote failure
Degraded(call, file) ==
    /\ Gave(call, file.value.fields["data"], TRUE, TRUE)
    /\ call.result.value.meta.error = FormatError(call.remote.error)

C7_OriginalStep ==
    last'.op = "fetch" =>
      \A i \in DOMAIN calls' :
        LET c == calls'[i] IN
        (Called(c) /\ ~c.remote.ok) =>
          /\ IF files[c.path].kind # "nofile"
             THEN Degraded(c, files[c.path])
             ELSE c.result = Raise(c.remote.error)
          /\ files'[c.path] = files[c.path]

\* C7 as claimed: after a remote failure a fetch serves the cache entry of
\* its key whenever one exists, and raises the failure only when none does.
C7_AnyEntryServed == [][C7_OriginalStep]_vars

C7_Step ==
    last'.op = "fetch" =>
      \A i \in DOMAIN calls' :
        LET c == calls'[i] IN
        (Called(c) /\ ~c.remote.ok) =>
          /\ IF Unexpired(files[c.path], ttl_seconds, now)
             THEN Degraded(c, files[c.path])
             ELSE c.result = Raise(c.remote.error)
          /\ files'[c.path] = files[c.path]

\* C7, amended: after a remote failure a fetch serves the cache entry of its
\* key, with cached=true, cache_fallback=true and the error in meta, when
\* that entry has not expired under the TTL; when there is no entry or it
\* is older than the TTL the failure is raised; the cache file is left as
\* it was either way.
C7_UnexpiredEntryServed == [][C7_Step]_vars

\* a refresh whose remote call failed served the cached entry
C7_Witness ==
    /\ last.op = "fetch"
    /\ \E i \in DOMAIN calls :
          /\ Called(calls[i]) /\ ~calls[i].remote.ok
          /\ calls[i].refresh
          /\ Degraded(calls[i], calls[i].before)
          /\ files[calls[i].path] = calls[i].before

-----------------------------------------------------------------------------
(* _fetch_with_fallbacks                                                   *)

\* a faulty variant: the fallbacks are tried before the primary
ProviderListPrimaryLast(primary, fallbacks) == fallbacks \o <<primary>>

\* [primary, *list(fallbacks)]
ProviderList(primary, fallbacks) == <<primary>> \o fallbacks

\* a faulty variant: the first failure is raised
LastErrorFirst(errs) == errs[1][2]

\* errors[-1][1]
LastError(errs) == errs[Len(errs)][2]

\* a faulty variant: only the last failure is listed
AnnotateFallbackMetaLastOnly(meta, errs, provider_name) ==
    [ f \in DOMAIN meta \cup {"fallback_used", "fallback_provider", "fallbacks_tried"} |->
        CASE f = "fallback_used" -> TRUE
          [] f = "fallback_provider" -> provider_name
          [] f = "fallbacks_tried" ->
               << [source |-> errs[Len(errs)][1], error |-> FormatError(errs[Len(errs)][2])] >>
          [] f = "error" ->
               IF meta.error = None THEN FormatError(LastError(errs)) ELSE meta.error
          [] OTHER -> meta[f] ]

\* _annotate_fallback_meta (called with errors non-empty)
AnnotateFallbackMeta(meta, errs, provider_name) ==
    [ f \in DOMAIN meta \cup {"fallback_used", "fallback_provider", "fallbacks_tried"} |->
        CASE f = "fallback_used" -> TRUE
          [] f = "fallback_provider" -> provider_name
          [] f = "fallbacks_tried" ->
               [ i \in 1..Len(errs) |->
                   [source |-> errs[i][1], error |-> FormatError(errs[i][2])] ]
          [] f = "error" ->
               IF meta.error = None THEN FormatError(LastError(errs)) ELSE meta.error
          [] OTHER -> meta[f] ]

\* the provider names a sources configuration can give for a kind
ProviderNames(source_kind) == ProviderRegistry(source_kind) \cup {"unknown_provider"}

RECURSIVE SeqsUpTo(_, _)
\* the sequences over S of length at most n
SeqsUpTo(S, n) ==
    IF n = 0 THEN {<<>>}
    ELSE SeqsUpTo(S, n - 1) \cup
         { Append(q, x) : q \in { r \in SeqsUpTo(S, n - 1) : Len(r) = n - 1 }, x \in S }

Running == pc = "loop" /\ index <= Len(ProviderList(request.primary, request.fallbacks))

ProviderName == ProviderList(request.primary, request.fallbacks)[index]

Init ==
    /\ \E k \in SourceKinds :
          /\ files = [p \in KindPaths(k, Loc1) |-> NoFile]
          /\ stored = [p \in KindPaths(k, Loc1) |-> None]
    /\ now = StartNow
    /\ ttl_seconds \in { d * SecondsPerDay : d \in TtlDays }
    /\ last = NoCall
    /\ Idle

\* build_monthly_table calls _fetch_with_fallbacks(source_kind, primary,
\* fallbacks, location, start_date, end_date, cache, refresh)
FetchWithFallbacks(source_kind, primary, fallbacks, refresh) ==
    /\ pc # "loop"
    /\ KindPaths(source_kind, Loc1) = DOMAIN files
    /\ pc' = "loop"
    /\ request' = [source_kind |-> source_kind, primary |-> primary,
                   fallbacks |-> fallbacks, refresh |-> refresh]
    /\ index' = 1
    /\ errors' = <<>>
    /\ attempts' = <<>>
    /\ outcome' = None
    /\ calls' = <<>>
    /\ last' = NoCall
    /\ UNCHANGED <<cacheVars, aggVars>>

\* the loop comes to a name that is not in the registry
UnknownProvider ==
    /\ Running
    /\ ProviderName \notin ProviderRegistry(request.source_kind)
    /\ pc' = "raised"
    /\ outcome' = Raise(Error("ValueError", "Unknown provider", index))
    /\ calls' = <<>>
    /\ UNCHANGED <<cacheVars, last, request, index, errors, attempts, aggVars>>

\* the loop comes to a registered provider and calls it
TryProvider ==
    /\ Running
    /\ ProviderName \in ProviderRegistry(request.source_kind)
    /\ \E done \in ProviderOutcomes(request.source_kind, ProviderName, Loc1, files,
                                     ttl_seconds, now, request.refresh, index) :
         /\ files' = done.files
         /\ stored' = Responses(stored, done.calls, now)
         /\ calls' = done.calls
         /\ attempts' = Append(attempts, [name |-> ProviderName, result |-> done.result])
         /\ IF done.result.kind = "raise"
            THEN /\ errors' = Append(errors, <<ProviderName, done.result.error>>)
                 /\ index' = index + 1
                 /\ IF index < Len(ProviderList(request.primary, request.fallbacks))
                    THEN pc' = "loop" /\ outcome' = outcome
                    ELSE pc' = "raised" /\ outcome' = Raise(LastError(errors'))
            ELSE /\ errors' = errors
                 /\ index' = index
                 /\ pc' = "returned"
                 /\ outcome' =
                      Return([df |-> done.result.value.df,
                              meta |-> IF errors # <<>>
                                       THEN AnnotateFallbackMeta(done.result.value.meta,
                                                                 errors, ProviderName)
                                       ELSE done.result.value.meta])
    /\ UNCHANGED <<now, ttl_seconds, last, request, aggVars>>

Next ==
    \/ \E k \in SourceKinds, r \in BOOLEAN :
         \E primary \in ProviderNames(k),
            fallbacks \in SeqsUpTo(ProviderNames(k), MaxFallbacks) :
           FetchWithFallbacks(k, primary, fallbacks, r)
    \/ UnknownProvider
    \/ TryProvider

Spec == Init /\ [][Next]_vars

\* the list of the request, as configured: the primary, then the fallbacks
Configured == <<request.primary>> \o request.fallbacks

Succeeded(i) == attempts[i].result.kind = "return"

\* C1: _fetch_with_fallbacks calls the providers in the order [primary,
\* fallback_1, fallback_2, ...], skipping none; it gives back the series and
\* the meta of the first provider whose fetch does not raise, and calls no
\* provider after that one.
C1_FirstSuccessWins ==
    pc # "idle" =>
      /\ Len(attempts) <= Len(Configured)
      /\ \A i \in DOMAIN attempts : attempts[i].name = Configured[i]
      /\ \A i \in DOMAIN attempts :
            Succeeded(i) =>
              /\ i = Len(attempts)
              /\ pc = "returned"
              /\ outcome.kind = "return"
              /\ outcome.value.df = attempts[i].result.value.df
              /\ \A f \in DOMAIN attempts[i].result.value.meta \ {"fallback_used", "error"} :
                    outcome.value.meta[f] = attempts[i].result.value.meta[f]
              /\ i = 1 => outcome.value.meta = attempts[i].result.value.meta
      /\ pc = "returned" => (attempts # <<>> /\ Succeeded(Len(attempts)))
      /\ (pc = "loop" /\ attempts # <<>>) => ~Succeeded(Len(attempts))

\* the second of three providers succeeded after the first failed, and the
\* third was never called
C1_Witness ==
    /\ pc = "returned"
    /\ Len(Configured) = 3
    /\ Len(attempts) = 2
    /\ ~Succeeded(1) /\ Succeeded(2)
    /\ Configured[3] \in ProviderRegistry(request.source_kind)

\* format_error of a raised exception, written out
Formatted(e) ==
    IF e.msg = "" THEN JString(<<e.cls>>) ELSE JString(<<e.cls, ": ", e.msg>>)

\* C2: when k >= 1 providers failed before provider P succeeded, the meta
\* given back has fallback_used = true, fallback_provider = the name of P,
\* and fallbacks_tried with exactly k entries, one for each failed provider
\* in the order tried, each with that provider's name and formatted error.
C2_FallbackMeta ==
    (pc = "returned" /\ Len(attempts) >= 2) =>
      LET k == Len(attempts) - 1
          meta == outcome.value.meta
      IN  /\ meta.fallback_used = TRUE
          /\ meta.fallback_provider = attempts[k + 1].name
          /\ Len(meta.fallbacks_tried) = k
          /\ \A i \in 1..k :
                meta.fallbacks_tried[i] =
                  [source |-> attempts[i].name,
                   error |-> Formatted(attempts[i].result.error)]

\* two providers failed with different errors before the third succeeded
C2_Witness ==
    /\ pc = "returned"
    /\ Len(attempts) = 3
    /\ attempts[1].name # attempts[2].name
    /\ Len(outcome.value.meta.fallbacks_tried) = 2
    /\ outcome.value.meta.fallbacks_tried[1].source = request.primary
    /\ outcome.value.meta.fallbacks_tried[1].error # outcome.value.meta.fallbacks_tried[2].error

\* every provider of the list was called and every one raised
AllFailed ==
    /\ Len(attempts) = Len(Configured)
    /\ \A i \in DOMAIN attempts : ~Succeeded(i)

\* C3: when every provider of the list has failed, _fetch_with_fallbacks
\* raises the very exception the last provider raised, and gives back no
\* series and no meta.
C3_LastErrorRaised ==
    (pc # "idle" /\ AllFailed) =>
      /\ pc = "raised"
      /\ outcome = Raise(attempts[Len(attempts)].result.error)

\* two providers failed, the second with another exception than the first
C3_Witness ==
    /\ pc = "raised"
    /\ AllFailed
    /\ Len(attempts) >= 2
    /\ attempts[1].result.error # attempts[Len(attempts)].result.error
    /\ outcome.error = attempts[Len(attempts)].result.error

\* C4: when a name of the configured list is not in the registry of the
\* source kind, wherever it stands in the list, _fetch_with_fallbacks ends
\* by raising the configuration error and no provider fetch is ever made.
C4_UnknownNameNoFetch ==
    (pc # "idle" /\ \E i \in DOMAIN Configured :
                      Configured[i] \notin ProviderRegistry(request.source_kind)) =>
      /\ attempts = <<>>
      /\ pc # "returned"
      /\ pc = "raised" => outcome.error.cls = "ValueError"


-----------------------------------------------------------------------------
(* compute/aggregate.py: floats, series and frames.                        *)
(* A float is an exact fraction in lowest terms; NaN is a value of its own. *)
(* A series is a function from its index to cells; a frame is an index and  *)
(* named columns over it.  A daily frame is a set of rows (date, value).    *)

NaN == [type |-> "nan"]
Bool(b) == [type |-> "bool", value |-> b]

RECURSIVE Gcd(_, _)
Gcd(a, b) == IF b = 0 THEN a ELSE Gcd(b, a % b)

Abs(n) == IF n < 0 THEN -n ELSE n

\* the float num / den, den > 0
Float(num, den) ==
    LET g == Gcd(Abs(num), den)
    IN  [type |-> "float", num |-> num \div g, den |-> den \div g]

Add(a, b) == Float(a.num * b.den + b.num * a.den, a.den * b.den)
DivInt(a, n) == Float(a.num, a.den * n)

\* a >= b; a comparison with NaN is False
Ge(a, b) ==
    IF a = NaN \/ b = NaN THEN FALSE ELSE a.num * b.den >= b.num * a.den

RECURSIVE SumOf(_, _)
SumOf(S, f) ==
    IF S = {} THEN Float(0, 1)
    ELSE LET x == CHOOSE x \in S : TRUE
         IN  Add(f[x], SumOf(S \ {x}, f))

\* Series.mean() of the cells f[x], x in S: NaN cells are skipped, and the
\* mean of no cell is NaN
Mean(S, f) ==
    LET V == { x \in S : f[x] # NaN }
    IN  IF V = {} THEN NaN ELSE DivInt(SumOf(V, f), Cardinality(V))

\* calendar.monthrange(year, month)[1]
IsLeap(year) == (year % 4 = 0 /\ year % 100 # 0) \/ year % 400 = 0
MonthRange(year, month) ==
    IF month = 2 THEN (IF IsLeap(year) THEN 29 ELSE 28)
    ELSE IF month \in {4, 6, 9, 11} THEN 30 ELSE 31

\* an expression's value, computed once and in full where it is bound
Value(v) == CHOOSE x \in {v} : x = v

\* pd.DataFrame()
EmptyFrame == [index |-> {}, columns |-> <<>>]

\* Series.reindex(index)
Reindex(series, idx) ==
    [i \in idx |-> IF i \in DOMAIN series THEN series[i] ELSE NaN]

\* DataFrame.reindex(index)
ReindexFrame(frame, idx) ==
    [index |-> idx,
     columns |-> [c \in DOMAIN frame.columns |-> Reindex(frame.columns[c], idx)]]

\* frame[name] = series: a frame without rows takes the index of the series
\* it is given, any other frame aligns the series to its own index
SetItem(frame, name, series) ==
    LET idx == IF frame.index = {} THEN DOMAIN series ELSE frame.index
        old == ReindexFrame(frame, idx)
    IN  [index |-> idx,
         columns |-> [c \in DOMAIN old.columns \cup {name} |->
                         IF c = name THEN Reindex(series, idx)
                         ELSE old.columns[c]]]

\* frame[name]
GetItem(frame, name) ==
    IF name \in DOMAIN frame.columns THEN Return(frame.columns[name])
    ELSE Raise(Error("KeyError", name, 0))

\* Series.fillna(False)
FillNaFalse(series) ==
    [i \in DOMAIN series |-> IF series[i] = NaN THEN Bool(FALSE) ELSE series[i]]


Min(S) == CHOOSE x \in S : \A y \in S : x <= y
Max(S) == CHOOSE x \in S : \A y \in S : x >= y

\* groupby("month")[column].mean() of a series keyed by (year, month)
MeanByMonth(series) ==
    [m \in { k[2] : k \in DOMAIN series } |->
        Mean({ k \in DOMAIN series : k[2] = m }, series)]

\* monthly_mean_from_daily(df, value_col, min_coverage, start_year, end_year)
MonthlyMeanFromDaily(df, value_col, min_coverage, start_year, end_year) ==
    LET cell == [r \in df |-> r.value]
        keys == { <<r.date[1], r.date[2]>> : r \in df }
        grouped(k) == { r \in df : <<r.date[1], r.date[2]>> = k }
        monthly_mean == [k \in keys |-> Mean(grouped(k), cell)]
        years == { r.date[1] : r \in df }
        first_year == IF start_year # None THEN start_year
                      ELSE IF df # {} THEN JNumber(Min(years)) ELSE None
        last_year == IF end_year # None THEN end_year
                     ELSE IF df # {} THEN JNumber(Max(years)) ELSE None
        counts == [k \in keys |->
                      Cardinality({ r \in grouped(k) : r.value # NaN })]
        coverage ==
            IF first_year # None /\ last_year # None
            THEN [k \in (first_year.n .. last_year.n) \X (1..12) |->
                     Float(IF k \in keys THEN counts[k] ELSE 0,
                           MonthRange(k[1], k[2]))]
            ELSE [k \in keys |-> Float(counts[k], MonthRange(k[1], k[2]))]
        stats1 == IF keys # {}
                  THEN SetItem(EmptyFrame, value_col, MeanByMonth(monthly_mean))
                  ELSE EmptyFrame
        stats2 == IF DOMAIN coverage # {}
                  THEN SetItem(stats1, "coverage", MeanByMonth(coverage))
                  ELSE stats1
        stats3 == IF "coverage" \notin DOMAIN stats2.columns
                  THEN SetItem(stats2, "coverage", <<>>)
                  ELSE stats2
        stats4 == SetItem(stats3, "coverage_ok",
                      [i \in stats3.index |->
                          Bool(Ge(stats3.columns["coverage"][i], min_coverage))])
        stats5 == ReindexFrame(stats4, 1..12)
        stats6 == SetItem(stats5, "coverage_ok",
                      FillNaFalse(stats5.columns["coverage_ok"]))
        mean == GetItem(stats6, value_col)
    IN  IF mean.kind = "raise" THEN mean
        ELSE Return([mean |-> mean.value,
                     coverage_ok |-> stats6.columns["coverage_ok"]])

-----------------------------------------------------------------------------
(* The aggregator on its own: a daily frame, then one call.                 *)

\* the most rows a daily frame of the model has
MaxRows == 3

\* the dates and the cells the rows of a daily frame are drawn from
Years == {2023, 2024}
Dates == { <<y, m, d>> : y \in Years, m \in {2, 3}, d \in {1, 2} }
Cells == {NaN, Float(1, 1), Float(3, 1)}
Rows == { [date |-> d, value |-> v] : d \in Dates, v \in Cells }

RECURSIVE FramesUpTo(_)
FramesUpTo(n) ==
    IF n = 0 THEN {{}}
    ELSE LET shorter == FramesUpTo(n - 1)
         IN  shorter \cup { f \cup {r} : f \in shorter, r \in Rows }

\* the arguments of the calls: the configured minimum coverage, and the
\* period's years (None when the caller leaves the year out)
MinCoverages == {Float(0, 1), Float(1, 31), Float(4, 5)}
YearArgs == {None} \cup { JNumber(y) : y \in Years }

InitAgg ==
    /\ files = <<>> /\ stored = <<>>
    /\ now = StartNow /\ ttl_seconds = 0
    /\ last = NoCall
    /\ calls = <<>>
    /\ pc = "idle" /\ request = None /\ index = 0
    /\ errors = <<>> /\ attempts = <<>>
    /\ outcome = None
    /\ daily \in FramesUpTo(MaxRows)
    /\ monthly = None
    /\ inputs = None /\ output = None

Aggregate(value_col, min_coverage, start_year, end_year) ==
    /\ monthly = None
    /\ monthly' = [value_col |-> value_col, min_coverage |-> min_coverage,
                   start_year |-> start_year, end_year |-> end_year,
                   result |-> MonthlyMeanFromDaily(daily, value_col,
                                  min_coverage, start_year, end_year)]
    /\ UNCHANGED <<cacheVars, last, calls, orchVars, daily, inputs, output>>

NextAgg ==
    \E c \in MinCoverages, s \in YearArgs, e \in YearArgs :
        Aggregate("tmax_c", c, s, e)

SpecAgg == InitAgg /\ [][NextAgg]_vars

\* the calendar months the daily frame has no valid value for
WithoutData(m) == \A r \in daily : r.date[2] = m => r.value = NaN

\* C10: whatever the daily frame (no row at all, or rows of some months
\* only), monthly_mean_from_daily returns, its two series are indexed by the
\* months 1..12, and a month without data has an undefined mean and
\* coverage_ok False.
C10_TwelveMonths ==
    monthly # None =>
        /\ monthly.result.kind = "return"
        /\ DOMAIN monthly.result.value.mean = 1..12
        /\ DOMAIN monthly.result.value.coverage_ok = 1..12
        /\ \A m \in 1..12 :
              WithoutData(m) =>
                  /\ monthly.result.value.mean[m] = NaN
                  /\ monthly.result.value.coverage_ok[m] = Bool(FALSE)


\* the years the call's coverage is taken over: the years given, and where
\* one is left out the first or last year of the frame
InRange(year) ==
    /\ monthly.start_year # None => year >= monthly.start_year.n
    /\ monthly.end_year # None => year <= monthly.end_year.n

\* the calendar months without a valid value in any year of the range
NoValidDays(m) ==
    \A r \in daily :
        (r.date[2] = m /\ InRange(r.date[1])) => r.value = NaN

\* C11: for any daily frame, year range and min_coverage, a calendar month
\* with no valid observed day in any year of the range comes back from
\* monthly_mean_from_daily with coverage_ok False (the coverage ratio itself,
\* 0 for such a month, is not part of what the call returns).
C11_NoDataNotCovered ==
    monthly # None =>
        \A m \in 1..12 :
            NoValidDays(m) =>
                /\ monthly.result.kind = "return"
                /\ monthly.result.value.coverage_ok[m] = Bool(FALSE)


-----------------------------------------------------------------------------
(* compute/quality.py: apply_coverage_flags.                               *)

\* the cache, the clients and the orchestrator at rest
Rest ==
    /\ files = <<>> /\ stored = <<>>
    /\ now = StartNow /\ ttl_seconds = 0
    /\ last = NoCall
    /\ calls = <<>>
    /\ pc = "idle" /\ request = None /\ index = 0
    /\ errors = <<>> /\ attempts = <<>>
    /\ outcome = None

\* Series.isna(), the operators ~ and | of boolean series, astype(int)
IsNa(series) == [i \in DOMAIN series |-> Bool(series[i] = NaN)]
Invert(series) == [i \in DOMAIN series |-> Bool(~series[i].value)]
Or(a, b) == [i \in DOMAIN a |-> Bool(a[i].value \/ b[i].value)]
AsInt(series) == [i \in DOMAIN series |-> IF series[i].value THEN 1 ELSE 0]

\* apply_coverage_flags without its estimated argument
ApplyCoverageFlagsNoEstimate(series, coverage_ok, estimated) ==
    LET aligned_series == Reindex(series, 1..12)
        aligned_coverage == FillNaFalse(Reindex(coverage_ok, 1..12))
        flags == Or(Invert(aligned_coverage), IsNa(aligned_series))
    IN  [index |-> 1..12,
         columns |-> [value |-> aligned_series, flag |-> AsInt(flags)]]

\* apply_coverage_flags(series, coverage_ok, estimated)
ApplyCoverageFlags(series, coverage_ok, estimated) ==
    LET aligned_series == Reindex(series, 1..12)
        aligned_coverage == FillNaFalse(Reindex(coverage_ok, 1..12))
        flags1 == Or(Invert(aligned_coverage), IsNa(aligned_series))
        flags2 == IF estimated # None
                  THEN Or(flags1, FillNaFalse(Reindex(estimated.series, 1..12)))
                  ELSE flags1
    IN  [index |-> 1..12,
         columns |-> [value |-> aligned_series, flag |-> AsInt(flags2)]]

\* the series handed to apply_coverage_flags: an index, one cell for the odd
\* months of it and one for the even months
MonthSets == {1..12, 2..12, {1, 2, 13}, {}}
SeriesOver(cells) ==
    { [m \in idx |-> IF m % 2 = 1 THEN odd ELSE even] :
          idx \in MonthSets, odd \in cells, even \in cells }
Wrap(series) == [type |-> "series", series |-> series]

FlagInputs ==
    [series : SeriesOver({NaN, Float(5, 2)}),
     coverage_ok : SeriesOver({NaN, Bool(TRUE), Bool(FALSE)}),
     estimated : {None} \cup
                 { Wrap(e) : e \in SeriesOver({NaN, Bool(TRUE), Bool(FALSE)}) }]

InitFlags ==
    /\ Rest
    /\ daily = {} /\ monthly = None
    /\ inputs \in FlagInputs
    /\ output = None

ApplyFlags ==
    /\ output = None
    /\ output' = ApplyCoverageFlags(inputs.series, inputs.coverage_ok,
                                    inputs.estimated)
    /\ UNCHANGED <<cacheVars, last, calls, orchVars, daily, monthly, inputs>>

NextFlags == ApplyFlags

SpecFlags == InitFlags /\ [][NextFlags]_vars

\* what the claim calls coverage sufficient, value present and estimated
CoverageOk(m) ==
    m \in DOMAIN inputs.coverage_ok /\ inputs.coverage_ok[m] = Bool(TRUE)
ValuePresent(m) == m \in DOMAIN inputs.series /\ inputs.series[m] # NaN
Estimated(m) ==
    /\ inputs.estimated # None
    /\ m \in DOMAIN inputs.estimated.series
    /\ inputs.estimated.series[m] = Bool(TRUE)

\* C12: apply_coverage_flags gives a row for each month 1..12, and month m is
\* flagged exactly when coverage_ok[m] is false or absent, or value[m] is
\* undefined, or estimated[m] is set.
C12_FlagIff ==
    output # None =>
        /\ output.index = 1..12
        /\ DOMAIN output.columns.flag = 1..12
        /\ DOMAIN output.columns.value = 1..12
        /\ \A m \in 1..12 :
              /\ output.columns.flag[m] \in {0, 1}
              /\ output.columns.flag[m] = 1 <=>
                     (~CoverageOk(m) \/ ~ValuePresent(m) \/ Estimated(m))
              /\ ValuePresent(m) => output.columns.value[m] = inputs.series[m]
              /\ ~ValuePresent(m) => output.columns.value[m] = NaN

C12_Witness ==
    /\ output # None
    /\ output.columns.flag[1] = 1
    /\ CoverageOk(1) /\ ValuePresent(1) /\ Estimated(1)
    /\ output.columns.flag[2] = 0
    /\ 3 \notin DOMAIN inputs.coverage_ok


-----------------------------------------------------------------------------
(* pipeline.py: _build_rain_days.                                          *)

\* products and quotients of floats; NaN in, NaN out
Mul(a, b) ==
    IF a = NaN \/ b = NaN THEN NaN ELSE Float(a.num * b.num, a.den * b.den)
Div(a, b) ==
    IF a = NaN \/ b = NaN THEN NaN
    ELSE IF b.num < 0 THEN Float(-(a.num * b.den), a.den * (-b.num))
    ELSE Float(a.num * b.den, a.den * b.num)

\* _average_days_per_month(start_year, end_year)
AverageDaysPerMonth(start_year, end_year) ==
    LET days == [k \in (start_year .. end_year) \X (1..12) |->
                    Float(MonthRange(k[1], k[2]), 1)]
    IN  MeanByMonth(days)

\* Series.where(cond, other), other a series
Where(series, cond, other) ==
    [i \in DOMAIN series |-> IF cond[i].value THEN series[i] ELSE other[i]]
And(a, b) == [i \in DOMAIN a |-> Bool(a[i].value /\ b[i].value)]
AnyTrue(series) == \E i \in DOMAIN series : series[i].value
Constant(idx, cell) == [i \in idx |-> cell]

\* a variant: a day without a precipitation value is left out of the rate
\* and of the valid days
PrimaryRainDaysSkipMissing(air_df, start_year, end_year, min_coverage) ==
    LET rain_indicator ==
            { [date |-> r.date, prcp_mm |-> r.value,
               value |-> IF r.value = NaN THEN NaN
                         ELSE IF Ge(r.value, Float(1, 1)) THEN Float(1, 1)
                         ELSE Float(0, 1)] : r \in air_df }
        product(aggregated, avg_days) ==
            [m \in DOMAIN aggregated.value.mean \cap DOMAIN avg_days |->
                Mul(aggregated.value.mean[m], avg_days[m])]
        rain_days(aggregated, avg_days) ==
            IF aggregated.kind = "raise" THEN aggregated
            ELSE Return([rain_days |->
                             Reindex(product(aggregated, avg_days), 1..12),
                         rain_cov |->
                             Reindex(aggregated.value.coverage_ok, 1..12),
                         estimated |-> Constant(1..12, Bool(FALSE))])
    IN  CHOOSE result \in
            { rain_days(aggregated, avg_days) :
                aggregated \in {Value(MonthlyMeanFromDaily(rain_indicator,
                                    "rain_day", min_coverage,
                                    JNumber(start_year), JNumber(end_year)))},
                avg_days \in {Value(AverageDaysPerMonth(start_year,
                                                        end_year))} } : TRUE

\* lines 290-300: the rain-day rate of each month times the month's days;
\* aggregated and avg_days are computed once, as the call's locals are
PrimaryRainDays(air_df, start_year, end_year, min_coverage) ==
    LET rain_indicator ==
            { [date |-> r.date, prcp_mm |-> r.value,
               value |-> IF Ge(r.value, Float(1, 1)) THEN Float(1, 1)
                         ELSE Float(0, 1)] : r \in air_df }
        product(aggregated, avg_days) ==
            [m \in DOMAIN aggregated.value.mean \cap DOMAIN avg_days |->
                Mul(aggregated.value.mean[m], avg_days[m])]
        rain_days(aggregated, avg_days) ==
            IF aggregated.kind = "raise" THEN aggregated
            ELSE Return([rain_days |->
                             Reindex(product(aggregated, avg_days), 1..12),
                         rain_cov |->
                             Reindex(aggregated.value.coverage_ok, 1..12),
                         estimated |-> Constant(1..12, Bool(FALSE))])
    IN  CHOOSE result \in
            { rain_days(aggregated, avg_days) :
                aggregated \in {Value(MonthlyMeanFromDaily(rain_indicator,
                                    "rain_day", min_coverage,
                                    JNumber(start_year), JNumber(end_year)))},
                avg_days \in {Value(AverageDaysPerMonth(start_year,
                                                        end_year))} } : TRUE

\* lines 303-312: the months to estimate and the values to give them
EstimatedValues(air_df, mm_per_rain_day_proxy) ==
    LET cell == [r \in air_df |-> r.value]
        keys == { <<r.date[1], r.date[2]>> : r \in air_df }
        monthly_total ==
            [k \in keys |->
                SumOf({ r \in air_df : <<r.date[1], r.date[2]>> = k
                                       /\ r.value # NaN }, cell)]
        avg_total == Reindex(MeanByMonth(monthly_total), 1..12)
    IN  [m \in 1..12 |-> Div(avg_total[m], mm_per_rain_day_proxy)]

\* the fallback overwriting every month it has an estimate for
NeedsEstimateAll(rain_days, estimated_values) ==
    Invert(IsNa(estimated_values))

NeedsEstimate(rain_days, estimated_values) ==
    And(IsNa(rain_days), Invert(IsNa(estimated_values)))

\* _build_rain_days(air_df, start_year, end_year, min_coverage,
\*                  allow_estimated, mm_per_rain_day_proxy)
BuildRainDays(air_df, start_year, end_year, min_coverage, allow_estimated, mm_per_rain_day_proxy) ==
    LET fallback(primary, estimated_values) ==
            LET rain_days == primary.value.rain_days
                rain_cov == primary.value.rain_cov
                needs_estimate == NeedsEstimate(rain_days, estimated_values)
            IN  IF primary.kind = "raise" THEN primary
                ELSE IF allow_estimated /\ AnyTrue(IsNa(rain_days))
                THEN Return([rain_days |->
                                 Where(rain_days, Invert(needs_estimate),
                                       estimated_values),
                             rain_cov |->
                                 Where(rain_cov, Invert(needs_estimate),
                                       Constant(1..12, Bool(FALSE))),
                             estimated |->
                                 Or(primary.value.estimated, needs_estimate)])
                ELSE primary
    IN  CHOOSE result \in
            { fallback(primary, estimated_values) :
                primary \in {Value(PrimaryRainDays(air_df, start_year,
                                 end_year, min_coverage))},
                estimated_values \in {Value(EstimatedValues(air_df,
                                          mm_per_rain_day_proxy))} } : TRUE


\* the daily frames of the air/rain source: value is the prcp_mm of the row
PrcpCells == {NaN, Float(0, 1), Float(2, 1)}
PrcpDates == { d \in Dates : d[2] = 2 \/ d[3] = 1 }
PrcpRows == { [date |-> d, value |-> v] : d \in PrcpDates, v \in PrcpCells }

RECURSIVE PrcpFramesUpTo(_)
PrcpFramesUpTo(n) ==
    IF n = 0 THEN {{}}
    ELSE LET shorter == PrcpFramesUpTo(n - 1)
         IN  shorter \cup { f \cup {r} : f \in shorter, r \in PrcpRows }

\* the period and the configuration build_monthly_table hands over
Periods == { <<s, e>> \in Years \X Years : s <= e }
RainInputs ==
    [period : Periods,
     min_coverage : {Float(1, 31), Float(4, 5)},
     allow_estimated : BOOLEAN,
     mm_per_rain_day_proxy : {Float(8, 1)}]

InitRain ==
    /\ Rest
    /\ daily \in PrcpFramesUpTo(MaxRows)
    /\ monthly = None
    /\ inputs \in RainInputs
    /\ output = None

\* the call, with the value of rain_days, rain_cov and estimated before the
\* estimation fallback (primary) next to what is returned (result)
BuildRain ==
    /\ output = None
    /\ output' =
         [primary |-> PrimaryRainDays(daily, inputs.period[1], inputs.period[2],
                                      inputs.min_coverage),
          result |-> BuildRainDays(daily, inputs.period[1], inputs.period[2],
                                   inputs.min_coverage, inputs.allow_estimated,
                                   inputs.mm_per_rain_day_proxy)]
    /\ UNCHANGED <<cacheVars, last, calls, orchVars, daily, monthly, inputs>>

NextRain == BuildRain

SpecRain == InitRain /\ [][NextRain]_vars

\* the estimation fallback is entered
FallbackRuns ==
    /\ inputs.allow_estimated
    /\ \E m \in 1..12 : output.primary.value.rain_days[m] = NaN

\* C13: the estimation fallback of _build_rain_days runs only when
\* allow_estimated is true and some month's primary value is undefined; it
\* changes the value of no month the primary path populated, nor its
\* coverage_ok; every month it fills gets coverage_ok False and estimated
\* True; with allow_estimated false no month is estimated.
C13_BackfillOnly ==
    (output # None /\ output.primary.kind = "return") =>
        /\ output.result.kind = "return"
        /\ ~FallbackRuns => output.result = output.primary
        /\ \A m \in 1..12 :
              LET primary == output.primary.value
                  final == output.result.value
              IN  /\ primary.rain_days[m] # NaN =>
                        /\ final.rain_days[m] = primary.rain_days[m]
                        /\ final.rain_cov[m] = primary.rain_cov[m]
                        /\ final.estimated[m] = Bool(FALSE)
                  /\ final.rain_days[m] # primary.rain_days[m] =>
                        /\ final.rain_cov[m] = Bool(FALSE)
                        /\ final.estimated[m] = Bool(TRUE)
                  /\ final.estimated[m] = Bool(TRUE) =>
                        /\ inputs.allow_estimated
                        /\ final.rain_cov[m] = Bool(FALSE)

\* the fallback has run on a frame with populated and unpopulated months
C13_Witness ==
    /\ output # None
    /\ output.primary.kind = "return"
    /\ FallbackRuns
    /\ \E m \in 1..12 : output.primary.value.rain_days[m] # NaN
    /\ output.result.kind = "return"

\* the calendar months whose rows, if any, all lack a precipitation value
AllPrcpMissing(m) == \A r \in daily : r.date[2] = m => r.value = NaN

\* C23: in _build_rain_days a day without a precipitation value is not a
\* valid observation, so a calendar month whose precipitation values are all
\* missing comes out of the primary path with coverage_ok False and an
\* undefined rain-day value.
C23_MissingPrcpNotValid ==
    (output # None /\ output.primary.kind = "return") =>
        \A m \in 1..12 :
            AllPrcpMissing(m) =>
                /\ output.primary.value.rain_cov[m] = Bool(FALSE)
                /\ output.primary.value.rain_days[m] = NaN


\* the calendar months the frame has no row for, in any year
NoRowFor(m) == \A r \in daily : r.date[2] # m

\* C24: _build_rain_days raises only for a frame without rows; whatever else
\* it is given, with allow_estimated true or false, it returns estimated
\* False for all twelve months: a month's primary value is undefined exactly
\* when the frame has no row for that calendar month in any year, the
\* month's estimate from the precipitation total is then undefined too, and
\* the fallback fills no month.
C24_NeverEstimated ==
    output # None =>
        /\ output.result.kind = "raise" => daily = {}
        /\ output.result.kind = "return" =>
              \A m \in 1..12 :
                  /\ output.result.value.estimated[m] = Bool(FALSE)
                  /\ output.primary.value.rain_days[m] = NaN <=> NoRowFor(m)
                  /\ NoRowFor(m) =>
                        EstimatedValues(daily,
                            inputs.mm_per_rain_day_proxy)[m] = NaN
                  /\ output.result.value.rain_days[m] =
                        output.primary.value.rain_days[m]

\* the fallback is entered on a frame that has a month of rows without any
\* precipitation value next to months without rows
C24_Witness ==
    /\ output # None /\ output.result.kind = "return"
    /\ FallbackRuns
    /\ \E m \in 1..12 : ~NoRowFor(m) /\ AllPrcpMissing(m)
    /\ \A m \in 1..12 : output.result.value.estimated[m] = Bool(FALSE)


-----------------------------------------------------------------------------
(* score/comfort.py: compute_score.                                        *)
(* Python float arithmetic on exact fractions: an operation on NaN gives   *)
(* NaN, a comparison with NaN is False.                                     *)

Plus(a, b) == IF a = NaN \/ b = NaN THEN NaN ELSE Add(a, b)
Minus(a, b) ==
    IF a = NaN \/ b = NaN THEN NaN
    ELSE Float(a.num * b.den - b.num * a.den, a.den * b.den)
Neg(a) == IF a = NaN THEN NaN ELSE Float(-a.num, a.den)
FAbs(a) == IF a = NaN THEN NaN ELSE Float(Abs(a.num), a.den)
Lt(a, b) == IF a = NaN \/ b = NaN THEN FALSE ELSE a.num * b.den < b.num * a.den
Gt(a, b) == Lt(b, a)
Le(a, b) == Ge(b, a)

\* the builtins min(a, b) and max(a, b): the first argument unless the second
\* compares smaller (larger)
PyMin(a, b) == IF Lt(b, a) THEN b ELSE a
PyMax(a, b) == IF Gt(b, a) THEN b ELSE a

\* _clamp without its lower bound
ClampCeilingOnly(value, min_value, max_value) == PyMin(max_value, value)

\* _clamp(value, min_value, max_value)
Clamp(value, min_value, max_value) == PyMax(min_value, PyMin(max_value, value))

\* _interp(x, x0, x1, y0, y1)
Interp(x, x0, x1, y0, y1) ==
    IF Le(x, x0) THEN y0
    ELSE IF Ge(x, x1) THEN y1
    ELSE Plus(y0, Div(Mul(Minus(y1, y0), Minus(x, x0)), Minus(x1, x0)))

\* thresholds[key], NaN standing in for a key the dict does not have
Threshold(thresholds, key) ==
    IF key \in DOMAIN thresholds THEN thresholds[key] ELSE NaN

\* the keys compute_score looks up in thresholds, in the order of their
\* first lookup
Lookups(air_c, sea_c, rain_days, wind_ms, wave_hs_m, thresholds) ==
    LET t(key) == Threshold(thresholds, key)
        when(cond, key) == IF cond THEN <<key>> ELSE <<>>
    IN  <<"S0", "S4", "dS", "BreezeW0", "HeatAirT">>
        \o when(Lt(t("BreezeW0"), wind_ms), "BreezeW1")
        \o when(Lt(t("BreezeW0"), wind_ms) /\ Lt(wind_ms, t("BreezeW1")),
                "BreezeRamp")
        \o <<"ColdAirT">>
        \o when(Lt(air_c, t("ColdAirT")), "WindColdT")
        \o <<"RainT1", "RainT2">>
        \o when(Gt(air_c, t("HeatAirT")), "CalmWindT")
        \o <<"BreathAirT">>
        \o when(Gt(air_c, t("BreathAirT")), "BreathRainT")
        \o when(Gt(air_c, t("BreathAirT")) /\ Gt(rain_days, t("BreathRainT")),
                "BreathWindT")
        \o <<"StrongWindT", "WaveT1">>
        \o when(Gt(wave_hs_m, t("WaveT1")), "WaveT2")
        \o when(Gt(wave_hs_m, t("WaveT1")) /\ ~Le(wave_hs_m, t("WaveT2")),
                "WaveT3")


\* line 33 of compute_score
AirAdj(air_c, sea_c, thresholds) ==
    Mul(Neg(FAbs(Minus(air_c, sea_c))), thresholds["dS"])

\* lines 30-118 of compute_score, every key looked up being there
Components(air_c, sea_c, rain_days, wind_ms, wave_hs_m, thresholds) ==
    LET t(key) == Threshold(thresholds, key)
        n(k) == Float(k, 1)
        sea_base == Clamp(Interp(sea_c, t("S0"), t("S4"), n(0), n(100)),
                          n(0), n(100))
        air_adj == AirAdj(air_c, sea_c, thresholds)
        breeze == Interp(wind_ms, n(0), t("BreezeW0"), n(0), n(5))
        warm_for_breeze ==
            IF Gt(air_c, t("HeatAirT"))
            THEN Interp(air_c, t("HeatAirT"), Plus(t("HeatAirT"), t("dS")),
                        n(0), n(5))
            ELSE n(0)
        breeze_bonus ==
            IF Lt(t("BreezeW0"), wind_ms) /\ Lt(wind_ms, t("BreezeW1"))
            THEN Mul(Minus(wind_ms, t("BreezeW0")), t("BreezeRamp"))
            ELSE n(0)
        cold == IF Lt(air_c, t("ColdAirT"))
                THEN Mul(Minus(t("ColdAirT"), air_c), n(2))
                ELSE n(0)
        wind_ex_cold ==
            IF Lt(air_c, t("ColdAirT")) /\ Gt(wind_ms, t("WindColdT"))
            THEN Mul(Minus(wind_ms, t("WindColdT")), Float(3, 2))
            ELSE n(0)
        rain_pen == Clamp(Interp(rain_days, t("RainT1"), t("RainT2"),
                                 n(0), n(20)), n(0), n(20))
        wet_pen == IF Gt(rain_days, t("RainT2"))
                   THEN Mul(Minus(rain_days, t("RainT2")), Float(1, 2))
                   ELSE n(0)
        heat_pen ==
            IF Gt(air_c, t("HeatAirT")) /\ Lt(wind_ms, t("CalmWindT"))
            THEN Mul(Minus(air_c, t("HeatAirT")), Float(3, 2))
            ELSE n(0)
        breath_pen ==
            IF /\ Gt(air_c, t("BreathAirT"))
               /\ Gt(rain_days, t("BreathRainT"))
               /\ Lt(wind_ms, t("BreathWindT"))
            THEN n(10)
            ELSE n(0)
        strong_wind_pen ==
            IF Gt(wind_ms, t("StrongWindT"))
            THEN Mul(Minus(wind_ms, t("StrongWindT")), Float(3, 2))
            ELSE n(0)
        wave_pen0 ==
            IF Gt(wave_hs_m, t("WaveT1"))
            THEN IF Le(wave_hs_m, t("WaveT2"))
                 THEN Interp(wave_hs_m, t("WaveT1"), t("WaveT2"),
                             n(0), Float(15, 2))
                 ELSE Interp(wave_hs_m, t("WaveT2"), t("WaveT3"),
                             Float(15, 2), n(15))
            ELSE n(0)
        wave_pen == Clamp(wave_pen0, n(0), n(15))
        bonuses == Plus(Plus(Plus(Plus(sea_base, air_adj), breeze),
                             warm_for_breeze), breeze_bonus)
        score_raw ==
            Minus(Minus(Minus(Minus(Minus(Minus(Minus(Minus(bonuses,
                cold), wind_ex_cold), wet_pen), rain_pen), heat_pen),
                breath_pen), strong_wind_pen), wave_pen)
    IN  [SeaBase |-> sea_base, AirAdj |-> air_adj, Breeze |-> breeze,
         WarmForBreeze |-> warm_for_breeze, BreezeBonus |-> breeze_bonus,
         Cold |-> cold, WindExCold |-> wind_ex_cold, WetPen |-> wet_pen,
         RainPen |-> rain_pen, HeatPen |-> heat_pen, BreathPen |-> breath_pen,
         StrongWindPen |-> strong_wind_pen, WavePen |-> wave_pen,
         Score_raw |-> score_raw]

\* compute_score(air_c, sea_c, rain_days, wind_ms, wave_hs_m, params):
\* KeyError at the first key thresholds does not have
ComputeScore(air_c, sea_c, rain_days, wind_ms, wave_hs_m, params) ==
    LET thresholds == params.thresholds
        lookups == Lookups(air_c, sea_c, rain_days, wind_ms, wave_hs_m,
                           thresholds)
        missing == { i \in DOMAIN lookups : lookups[i] \notin DOMAIN thresholds }
        components == Components(air_c, sea_c, rain_days, wind_ms, wave_hs_m,
                                 thresholds)
    IN  IF missing # {}
        THEN Raise(Error("KeyError", lookups[Min(missing)], 0))
        ELSE Return([score |-> Clamp(components.Score_raw,
                                     params.score.clamp_min,
                                     params.score.clamp_max),
                     components |-> components])


\* the thresholds of tests/test_score.py
TestThresholds ==
    [S0 |-> Float(20, 1), S4 |-> Float(30, 1), ColdAirT |-> Float(22, 1),
     HeatAirT |-> Float(33, 1), BreezeW0 |-> Float(2, 1),
     BreezeW1 |-> Float(6, 1), BreezeRamp |-> Float(2, 1),
     RainT1 |-> Float(5, 1), RainT2 |-> Float(15, 1),
     CalmWindT |-> Float(2, 1), BreathAirT |-> Float(30, 1),
     BreathRainT |-> Float(12, 1), BreathWindT |-> Float(3, 1),
     StrongWindT |-> Float(10, 1), WaveT1 |-> Float(1, 2),
     WaveT2 |-> Float(6, 5), WaveT3 |-> Float(2, 1)]

\* the same with the two further keys compute_score looks up
WithKeys(thresholds, dS, WindColdT) ==
    [key \in DOMAIN thresholds \cup {"dS", "WindColdT"} |->
        IF key = "dS" THEN dS
        ELSE IF key = "WindColdT" THEN WindColdT
        ELSE thresholds[key]]

ThresholdSets ==
    { TestThresholds,
      WithKeys(TestThresholds, Float(1, 2), Float(5, 1)),
      WithKeys(TestThresholds, Float(2, 1), Float(8, 1)) }
Clamps ==
    { [clamp_min |-> Float(0, 1), clamp_max |-> Float(100, 1)],
      [clamp_min |-> Float(20, 1), clamp_max |-> Float(60, 1)] }

\* the monthly metrics handed to compute_score, NaN for an undefined one
Airs == {NaN, Float(-50, 1), Float(10, 1), Float(28, 1), Float(35, 1)}
Seas == {NaN, Float(5, 1), Float(27, 1)}
RainDays == {NaN, Float(6, 1), Float(30, 1), Float(300, 1)}
Winds == {NaN, Float(1, 1), Float(4, 1), Float(20, 1)}
Waves == {NaN, Float(4, 5), Float(4, 1)}

ScoreInputs ==
    [air_c : Airs, sea_c : Seas, rain_days : RainDays, wind_ms : Winds,
     wave_hs_m : Waves,
     params : [score : Clamps, thresholds : ThresholdSets]]

InitScore ==
    /\ Rest
    /\ daily = {} /\ monthly = None
    /\ inputs \in ScoreInputs
    /\ output = None

Score ==
    /\ output = None
    /\ output' = ComputeScore(inputs.air_c, inputs.sea_c, inputs.rain_days,
                              inputs.wind_ms, inputs.wave_hs_m, inputs.params)
    /\ UNCHANGED <<cacheVars, last, calls, orchVars, daily, monthly, inputs>>

NextScore == Score

SpecScore == InitScore /\ [][NextScore]_vars

Metrics == {"air_c", "sea_c", "rain_days", "wind_ms", "wave_hs_m"}
AllDefined == \A x \in Metrics : inputs[x] # NaN

\* C14: with the five inputs defined and clamp_min <= clamp_max the score is
\* within [clamp_min, clamp_max], and it is Score_raw whenever Score_raw is
\* within that range.
C14_ScoreClamped ==
    (output # None /\ output.kind = "return" /\ AllDefined) =>
        LET score == output.value.score
            raw == output.value.components.Score_raw
            lo == inputs.params.score.clamp_min
            hi == inputs.params.score.clamp_max
        IN  /\ Le(lo, score) /\ Le(score, hi)
            /\ (Le(lo, raw) /\ Le(raw, hi)) => score = raw
            /\ Lt(raw, lo) => score = lo
            /\ Gt(raw, hi) => score = hi

\* rain_days = 300 brings the score down to clamp_min
C14_Witness ==
    /\ output # None /\ output.kind = "return" /\ AllDefined
    /\ inputs.rain_days = Float(300, 1)
    /\ Lt(output.value.components.Score_raw, inputs.params.score.clamp_min)
    /\ output.value.score = inputs.params.score.clamp_min
    /\ inputs.params.score.clamp_min = Float(20, 1)


\* the parameters and the two calls of tests/test_score.py
TestParams ==
    [score |-> [clamp_min |-> Float(0, 1), clamp_max |-> Float(100, 1)],
     thresholds |-> TestThresholds]
MetricsAre(air_c, sea_c, rain_days, wind_ms, wave_hs_m) ==
    /\ inputs.air_c = air_c /\ inputs.sea_c = sea_c
    /\ inputs.rain_days = rain_days /\ inputs.wind_ms = wind_ms
    /\ inputs.wave_hs_m = wave_hs_m
HeavyPenalties ==
    MetricsAre(Float(10, 1), Float(5, 1), Float(30, 1), Float(20, 1), Float(4, 1))
Reasonable ==
    MetricsAre(Float(28, 1), Float(27, 1), Float(6, 1), Float(4, 1), Float(4, 5))

\* C15: with the threshold set of the spec and the tests and the clamp
\* [0, 100], compute_score(10, 5, 30, 20, 4) returns the score 0 and
\* compute_score(28, 27, 6, 4, 0.8) returns a score in [40, 100] with a
\* SeaBase component.
C15_TestScenarios ==
    (output # None /\ inputs.params = TestParams) =>
        /\ HeavyPenalties =>
              /\ output.kind = "return"
              /\ output.value.score = Float(0, 1)
        /\ Reasonable =>
              /\ output.kind = "return"
              /\ Le(Float(40, 1), output.value.score)
              /\ Le(output.value.score, Float(100, 1))
              /\ "SeaBase" \in DOMAIN output.value.components

\* C16: AirAdj is zero whenever ColdAirT <= air_c <= HeatAirT, and for a
\* given air_c it is the same whatever sea_c is.
C16_AirAdjOnlyAir ==
    (output # None /\ output.kind = "return" /\ AllDefined) =>
        LET thresholds == inputs.params.thresholds
        IN  /\ (Le(thresholds.ColdAirT, inputs.air_c)
                   /\ Le(inputs.air_c, thresholds.HeatAirT))
               => output.value.components.AirAdj = Float(0, 1)
            /\ \A sea_c \in Seas \ {NaN} :
                  ComputeScore(inputs.air_c, sea_c, inputs.rain_days,
                               inputs.wind_ms, inputs.wave_hs_m,
                               inputs.params).value.components.AirAdj
                  = output.value.components.AirAdj

\* the components that depend on one metric only
TermsOf(metric) ==
    CASE metric = "sea_c" -> {"SeaBase"}
      [] metric = "air_c" -> {"AirAdj", "WarmForBreeze", "Cold"}
      [] metric = "rain_days" -> {"RainPen", "WetPen"}
      [] metric = "wind_ms" -> {"Breeze", "BreezeBonus", "StrongWindPen"}
      [] metric = "wave_hs_m" -> {"WavePen"}

\* C17: with an undefined input metric every component and Score_raw are
\* defined, the terms of the undefined metric contribute zero, and the score
\* is the clamp of Score_raw (so not clamp_max for want of a defined sum).
C17_UndefinedInputSkipped ==
    (output # None /\ output.kind = "return" /\ ~AllDefined) =>
        LET components == output.value.components
        IN  /\ \A c \in DOMAIN components : components[c] # NaN
            /\ \A x \in Metrics :
                  inputs[x] = NaN =>
                      \A c \in TermsOf(x) : components[c] = Float(0, 1)
            /\ output.value.score # NaN
            /\ Le(inputs.params.score.clamp_min, components.Score_raw)
                   /\ Le(components.Score_raw, inputs.params.score.clamp_max)
               => output.value.score = components.Score_raw
            /\ Lt(components.Score_raw, inputs.params.score.clamp_min)
               => output.value.score = inputs.params.score.clamp_min
            /\ Gt(components.Score_raw, inputs.params.score.clamp_max)
               => output.value.score = inputs.params.score.clamp_max
            /\ components.Score_raw = NaN
               => output.value.score # inputs.params.score.clamp_max


-----------------------------------------------------------------------------
(* pipeline.py: build_monthly_table after its three fetches.               *)
(* The frame df is a function from row label to row.  The display columns  *)
(* (identity, source names, formatted strings) are left out of the rows.   *)

\* the column col of a daily frame, as the frame monthly_mean_from_daily
\* reads
Column(df, col) == { [date |-> r.date, value |-> r[col]] : r \in df }

\* Series.round(): to the nearest integer, a tie to the even one
Round(a) ==
    IF a = NaN THEN NaN
    ELSE LET floor == a.num \div a.den
             rest == a.num - floor * a.den
         IN  IF 2 * rest < a.den THEN Float(floor, 1)
             ELSE IF 2 * rest > a.den THEN Float(floor + 1, 1)
             ELSE IF floor % 2 = 0 THEN Float(floor, 1)
             ELSE Float(floor + 1, 1)

\* lines 103-152: the five monthly metrics, their coverage and their flags;
\* each aggregate is computed once, as the locals of the function are
Aggregated(air_df, sea_df, wind_wave_df, cfg) ==
    LET first == cfg.period[1]
        last_year == cfg.period[2]
        mean(df, col) == MonthlyMeanFromDaily(Column(df, col), col,
                             cfg.min_coverage, JNumber(first), JNumber(last_year))
        flagged(air, rain, sea, wind, wave) ==
            IF air.kind = "raise" THEN air
            ELSE IF rain.kind = "raise" THEN rain
            ELSE IF sea.kind = "raise" THEN sea
            ELSE IF wind.kind = "raise" THEN wind
            ELSE IF wave.kind = "raise" THEN wave
            ELSE Return(
              [coverage |-> [air |-> air.value.coverage_ok,
                             rain |-> rain.value.rain_cov,
                             sea |-> sea.value.coverage_ok,
                             wind |-> wind.value.coverage_ok,
                             wave |-> wave.value.coverage_ok],
               rain_estimated |-> rain.value.estimated,
               air |-> ApplyCoverageFlags(air.value.mean,
                           air.value.coverage_ok, None),
               rain |-> ApplyCoverageFlags(rain.value.rain_days,
                            rain.value.rain_cov, Wrap(rain.value.estimated)),
               sea |-> ApplyCoverageFlags(sea.value.mean,
                           sea.value.coverage_ok, None),
               wind |-> ApplyCoverageFlags(wind.value.mean,
                            wind.value.coverage_ok, None),
               wave |-> ApplyCoverageFlags(wave.value.mean,
                            wave.value.coverage_ok, None)])
    IN  CHOOSE result \in
            { flagged(air, rain, sea, wind, wave) :
                air \in {Value(mean(air_df, "tmax_c"))},
                rain \in {Value(BuildRainDays(Column(air_df, "prcp_mm"),
                              first, last_year, cfg.min_coverage,
                              cfg.allow_estimated_rain_days,
                              cfg.mm_per_rain_day_proxy))},
                sea \in {Value(mean(sea_df, "sst_c"))},
                wind \in {Value(mean(wind_wave_df, "wind_ms"))},
                wave \in {Value(mean(wind_wave_df, "wave_hs_m"))} } : TRUE

\* lines 154-201: the table, one row per month, and after reset_index the
\* row labels 0..11 with the month in the column Month
Table(agg, params) ==
    LET record(month, scored) ==
            IF scored.kind = "raise" THEN scored
            ELSE Return(
              [Month |-> month,
               AirTempC_num |-> agg.air.columns.value[month],
               SeaTempC_num |-> agg.sea.columns.value[month],
               RainDays_num |-> agg.rain.columns.value[month],
               Wind_ms_num |-> agg.wind.columns.value[month],
               WaveHs_m_num |-> agg.wave.columns.value[month],
               mark_air |-> agg.air.columns.flag[month],
               mark_sea |-> agg.sea.columns.flag[month],
               mark_rain |-> agg.rain.columns.flag[month],
               mark_wind |-> agg.wind.columns.flag[month],
               mark_wave |-> agg.wave.columns.flag[month],
               components |-> scored.value.components,
               Score |-> scored.value.score,
               ComfortScore |-> Mul(Round(Div(scored.value.score,
                                              params.rounding)),
                                    params.rounding)])
        row(month) ==
            CHOOSE result \in
                { record(month, scored) :
                    scored \in {Value(ComputeScore(
                                   agg.air.columns.value[month],
                                   agg.sea.columns.value[month],
                                   agg.rain.columns.value[month],
                                   agg.wind.columns.value[month],
                                   agg.wave.columns.value[month],
                                   [score |-> params.score,
                                    thresholds |-> params.thresholds]))} } : TRUE
        table(rows) ==
            LET failed == { month \in 1..12 : rows[month].kind = "raise" }
            IN  IF failed # {} THEN rows[Min(failed)]
                ELSE Return([label \in 0..11 |-> rows[label + 1].value])
    IN  CHOOSE result \in
            { table(rows) :
                rows \in {Value([month \in 1..12 |-> row(month)])} } : TRUE

\* lines 222-235: DataFrame.isna().any().any() over the five metrics
MissingAny(df) ==
    \E label \in DOMAIN df :
        \E col \in {"AirTempC_num", "SeaTempC_num", "RainDays_num",
                    "Wind_ms_num", "WaveHs_m_num"} : df[label][col] = NaN


CoverageBelow(min_coverage) ==
    [reason |-> "coverage_below", min_coverage |-> min_coverage]
EstimatedFromTotal == [reason |-> "estimated_from_total"]

\* one turn of the loop of _build_marks_detail: the marks of the row at label
MonthMarks(row, label, rain_estimated, min_coverage) ==
    LET mark(col, metric) ==
            IF row[col] = 1
            THEN <<[metric |-> metric, reason |-> CoverageBelow(min_coverage)]>>
            ELSE <<>>
        rain == IF row.mark_rain = 1
                THEN <<[metric |-> "RainDays",
                        reason |-> IF rain_estimated[label].value
                                   THEN EstimatedFromTotal
                                   ELSE CoverageBelow(min_coverage)]>>
                ELSE <<>>
    IN  mark("mark_air", "AirTempC") \o mark("mark_sea", "SeaTempC") \o rain
        \o mark("mark_wind", "Wind_ms") \o mark("mark_wave", "WaveHs_m")

\* _build_marks_detail(df, rain_estimated, min_coverage): the rows are
\* visited by label, rain_estimated.loc[label] raises KeyError for a label
\* the series does not have, and the key of a row's marks is str(label)
BuildMarksDetail(df, rain_estimated, min_coverage) ==
    LET unknown == { label \in DOMAIN df :
                        /\ df[label].mark_rain = 1
                        /\ label \notin DOMAIN rain_estimated }
    IN  IF unknown # {}
        THEN Raise(Error("KeyError", ToString(Min(unknown)), 0))
        ELSE Return([key \in { ToString(label) : label \in DOMAIN df } |->
                        LET label == CHOOSE l \in DOMAIN df : ToString(l) = key
                        IN  MonthMarks(df[label], label, rain_estimated,
                                       min_coverage)])


\* the daily frames the fetches give: a row on the first day of each month,
\* in both years of the period ("both"), in its first year only ("one") or
\* in neither ("none"); nan names the column whose cell is NaN in the rows
\* of the month, if any
Kind(rows, nan) == [rows |-> rows, nan |-> nan]
Full == Kind("both", "-")
MonthRows(month, kind, valid) ==
    LET years == IF kind.rows = "both" THEN Years
                 ELSE IF kind.rows = "one" THEN {Min(Years)} ELSE {}
    IN  { [c \in DOMAIN valid \cup {"date"} |->
              IF c = "date" THEN <<y, month, 1>>
              ELSE IF c = kind.nan THEN NaN ELSE valid[c]] : y \in years }
Frame(january, february, valid) ==
    UNION { MonthRows(m, IF m = 1 THEN january
                         ELSE IF m = 2 THEN february ELSE Full, valid)
            : m \in 1..12 }

AirValid == [tmax_c |-> Float(28, 1), prcp_mm |-> Float(2, 1)]
SeaValid == [sst_c |-> Float(27, 1)]
WindWaveValid == [wind_ms |-> Float(4, 1), wave_hs_m |-> Float(4, 5)]

AirFrames ==
    { Frame(j, f, AirValid) :
        j \in {Full, Kind("one", "-"), Kind("none", "-"),
               Kind("both", "tmax_c"), Kind("both", "prcp_mm")},
        f \in {Full, Kind("one", "-")} }
SeaFrames ==
    { Frame(j, Full, SeaValid) :
        j \in {Full, Kind("one", "-"), Kind("both", "sst_c")} } \cup {{}}
WindWaveFrames ==
    { Frame(j, Full, WindWaveValid) :
        j \in {Full, Kind("one", "-"), Kind("none", "-"),
               Kind("both", "wind_ms"), Kind("both", "wave_hs_m")} }

\* sources_cfg and params as build_monthly_table reads them; the argument
\* export_md is drawn at the one step that reads it
TableConfigs ==
    [period : {<<Min(Years), Max(Years)>>},
     min_coverage : {Float(1, 31), Float(4, 5)},
     allow_estimated_rain_days : {TRUE},
     allow_last_resort : BOOLEAN,
     mm_per_rain_day_proxy : {Float(5, 1)}]
TableParams ==
    [score |-> [clamp_min |-> Float(0, 1), clamp_max |-> Float(100, 1)],
     thresholds |-> WithKeys(TestThresholds, Float(1, 2), Float(5, 1)),
     rounding |-> Float(1, 10)]

TableInputs ==
    [air_df : AirFrames, sea_df : SeaFrames, wind_wave_df : WindWaveFrames,
     cfg : TableConfigs, params : {TableParams}]

InitTable ==
    /\ Rest
    /\ daily = {} /\ monthly = None
    /\ inputs \in TableInputs
    /\ output = None

tableFrame == <<cacheVars, last, calls, orchVars, daily, monthly, inputs>>

\* the run ends with an exception
Failed(error, written) ==
    [stage |-> "raised", written |-> written, result |-> Raise(error)]

\* lines 103-220: aggregation, flags, scores, the table
Assemble ==
    /\ output = None
    /\ \E agg \in {Value(Aggregated(inputs.air_df, inputs.sea_df,
                                    inputs.wind_wave_df, inputs.cfg))} :
         \E table \in {Value(IF agg.kind = "raise" THEN agg
                             ELSE Table(agg.value, inputs.params))} :
           output' =
             IF agg.kind = "raise" THEN Failed(agg.error, {})
             ELSE IF table.kind = "raise" THEN Failed(table.error, {})
             ELSE [stage |-> "assembled", written |-> {}, result |-> None,
                   df |-> table.value,
                   coverage |-> agg.value.coverage,
                   rain_estimated |-> agg.value.rain_estimated]
    /\ UNCHANGED tableFrame

\* lines 222-235: the last-resort check
CheckMissing ==
    /\ output # None /\ output.stage = "assembled"
    /\ output' =
         IF ~inputs.cfg.allow_last_resort /\ MissingAny(output.df)
         THEN Failed(Error("ValueError",
                  "Missing monthly data; last-resort estimates are disabled.",
                  0), output.written)
         ELSE [output EXCEPT !.stage = "checked"]
    /\ UNCHANGED tableFrame

\* lines 237-239: export_csv(df, csv_path)
ExportCsv ==
    /\ output # None /\ output.stage = "checked"
    /\ output' = [output EXCEPT !.stage = "csv",
                                !.written = @ \cup {"csv"}]
    /\ UNCHANGED tableFrame

\* lines 240-243: the parameter export_md, a bool, hides the function
\* export_md of report/export_md.py, so the call export_md(df, md_path)
\* calls the bool
ExportMd(export_md) ==
    /\ output # None /\ output.stage = "csv"
    /\ output' =
         IF export_md
         THEN Failed(Error("TypeError", "'bool' object is not callable", 0),
                     output.written)
         ELSE [output EXCEPT !.stage = "exported"]
    /\ UNCHANGED tableFrame

\* lines 245-268: the marks, the provenance document and its file
WriteProvenance ==
    /\ output # None /\ output.stage = "exported"
    /\ \E marks \in {Value(BuildMarksDetail(output.df, output.rain_estimated,
                                            inputs.cfg.min_coverage))} :
         output' =
             IF marks.kind = "raise" THEN Failed(marks.error, output.written)
             ELSE [output EXCEPT
                     !.stage = "returned",
                     !.written = @ \cup {"provenance"},
                     !.result = Return([df |-> output.df,
                                        provenance |->
                                          [coverage |-> output.coverage,
                                           marks |-> marks.value]])]
    /\ UNCHANGED tableFrame

NextTable ==
    \/ Assemble
    \/ CheckMissing
    \/ ExportCsv
    \/ \E export_md \in BOOLEAN : ExportMd(export_md)
    \/ WriteProvenance

SpecTable == InitTable /\ [][NextTable]_vars


\* the months for which a frame holds no valid cell in column col, and the
\* months for which it holds no row
Undefined(df, col) ==
    { m \in 1..12 : \A r \in df : r.date[2] = m => r[col] = NaN }
NoRows(df) == { m \in 1..12 : \A r \in df : r.date[2] # m }

\* one of the five metrics is undefined for some month: no valid daily value
\* (for the rain days, that rest on the rows, no row)
MetricUndefined ==
    \/ Undefined(inputs.air_df, "tmax_c") # {}
    \/ NoRows(inputs.air_df) # {}
    \/ Undefined(inputs.sea_df, "sst_c") # {}
    \/ Undefined(inputs.wind_wave_df, "wind_ms") # {}
    \/ Undefined(inputs.wind_wave_df, "wave_hs_m") # {}

\* the run is past the last-resort check or has ended
Checked == output # None /\ output.stage # "assembled"

\* C18: with allow_last_resort false and one of the five metrics undefined
\* for some month, the run ends with the error "Missing monthly data;
\* last-resort estimates are disabled." and no output file written.
C18_MissingFailsBeforeOutput ==
    (Checked /\ ~inputs.cfg.allow_last_resort /\ MetricUndefined) =>
        /\ output.stage = "raised"
        /\ output.result.error.cls = "ValueError"
        /\ output.result.error.msg =
               "Missing monthly data; last-resort estimates are disabled."
        /\ output.written = {}


\* C19: with the three fetches done and every metric defined for all twelve
\* months the run does not raise, whatever months and metrics are flagged,
\* and what it returns is the table of twelve rows, one for each month, with
\* the provenance document.
C19_FlagsNeverFail ==
    (output # None /\ ~MetricUndefined) =>
        /\ output.stage # "raised"
        /\ output.stage = "returned" =>
              /\ output.result.kind = "return"
              /\ { output.result.value.df[label].Month :
                      label \in DOMAIN output.result.value.df } = 1..12
              /\ "marks" \in DOMAIN output.result.value.provenance

\* the row of the table for calendar month m
RowOf(df, m) == df[CHOOSE label \in DOMAIN df : df[label].Month = m]

MarkColumns ==
    [AirTempC |-> "mark_air", SeaTempC |-> "mark_sea", RainDays |-> "mark_rain",
     Wind_ms |-> "mark_wind", WaveHs_m |-> "mark_wave"]

\* C20: the marks of the provenance document have one key for each calendar
\* month 1..12; the list of month m names metric X exactly when X is flagged
\* in the table's row of month m; and the reason of a RainDays entry is
\* estimated_from_total when the rain days of month m were estimated, the
\* coverage reason otherwise.
C20_MarksPerMonth ==
    (output # None /\ output.stage = "returned") =>
        LET df == output.result.value.df
            marks == output.result.value.provenance.marks
        IN  /\ DOMAIN marks = { ToString(m) : m \in 1..12 }
            /\ \A m \in 1..12 :
                  LET entries == marks[ToString(m)]
                  IN  /\ \A metric \in DOMAIN MarkColumns :
                            (\E i \in DOMAIN entries : entries[i].metric = metric)
                            <=> RowOf(df, m)[MarkColumns[metric]] = 1
                      /\ \A i \in DOMAIN entries :
                            entries[i].reason =
                                IF /\ entries[i].metric = "RainDays"
                                   /\ output.rain_estimated[m].value
                                THEN EstimatedFromTotal
                                ELSE CoverageBelow(inputs.cfg.min_coverage)


\* the daily column each coverage map of the provenance document rests on
CoverageColumns ==
    [air |-> [df |-> "air_df", col |-> "tmax_c"],
     rain |-> [df |-> "air_df", col |-> "prcp_mm"],
     sea |-> [df |-> "sea_df", col |-> "sst_c"],
     wind |-> [df |-> "wind_wave_df", col |-> "wind_ms"],
     wave |-> [df |-> "wind_wave_df", col |-> "wave_hs_m"]]

\* valid days over calendar days of month m, averaged over the period's years
CoverageRatio(df, col, period, m) ==
    LET ratio == [y \in period[1] .. period[2] |->
                     Float(Cardinality({ r \in df : /\ r.date[1] = y
                                                    /\ r.date[2] = m
                                                    /\ r[col] # NaN }),
                           MonthRange(y, m))]
    IN  Mean(period[1] .. period[2], ratio)

\* a cell of a coverage map as the number json.dumps writes for it
\* (True and False count as 1 and 0)
AsNumber(cell) ==
    IF cell.type = "bool" THEN (IF cell.value THEN Float(1, 1) ELSE Float(0, 1))
    ELSE cell

\* C21: in the provenance document of a run that returns, each of the five
\* coverage maps (air, rain, sea, wind, wave) gives every month 1..12 the
\* metric's coverage ratio: valid days over calendar days, averaged over
\* the years of the period.
C21_CoverageRatios ==
    (output # None /\ output.stage = "returned") =>
        \A metric \in DOMAIN CoverageColumns :
            LET map == output.result.value.provenance.coverage[metric]
                on == CoverageColumns[metric]
            IN  /\ DOMAIN map = 1..12
                /\ \A m \in 1..12 :
                      AsNumber(map[m]) =
                          CoverageRatio(inputs[on.df], on.col,
                                        inputs.cfg.period, m)


-----------------------------------------------------------------------------
(* The composite wind/wave fetch and the degraded path of the clients.     *)

\* the composite fetch of the step returned
CompositeReturned ==
    /\ last.op = "fetch" /\ last.provider = "open_meteo"
    /\ last.result.kind = "return"

\* the fetch gave back what cache.get handed it, without a remote response
ServedFromCache(call) ==
    /\ call.result.kind = "return"
    /\ Truthy(call.got.value)
    /\ call.result.value.df = ToDataFrame(ColumnsOf(call.client), call.got.value)
    /\ (~Called(call) \/ ~call.remote.ok)

\* the fetch gave back the cached entry after its remote call failed
UsedDegradedFallback(call) ==
    /\ ServedFromCache(call)
    /\ Called(call) /\ ~call.remote.ok

\* C22: the meta of a composite wind/wave fetch that returns nests the metas
\* of the wind fetch and of the wave fetch under components.wind and
\* components.wave; its cached is true exactly when both fetches were served
\* from the cache; its cache_fallback and fallback_used are true exactly
\* when one of them used the degraded cache fallback; and the wind fetch
\* asks for the primary coordinate, the wave fetch for the wave point.
C22_CompositeMeta ==
    CompositeReturned =>
        LET meta == last.result.value.meta
            wind == calls[1]
            wave == calls[2]
        IN  /\ Len(calls) = 2
            /\ wind.client = "wind" /\ wave.client = "wave"
            /\ meta.components.wind = wind.result.value.meta
            /\ meta.components.wave = wave.result.value.meta
            /\ meta.cached <=> (ServedFromCache(wind) /\ ServedFromCache(wave))
            /\ meta.cache_fallback <=>
                   (UsedDegradedFallback(wind) \/ UsedDegradedFallback(wave))
            /\ meta.fallback_used = meta.cache_fallback
            /\ wind.path = PathFor(NsWind,
                   BuildCacheKey("open_meteo_archive", "v1", Loc1.location_id,
                       Loc1.lat, Loc1.lon, StartDate, EndDate,
                       "wind_speed_10m_mean"))
            /\ wave.path = PathFor(NsWave,
                   BuildCacheKey("open_meteo_marine", "v1", Loc1.location_id,
                       Loc1.wave_point.lat, Loc1.wave_point.lon, StartDate,
                       EndDate, "wave_height_mean"))
            /\ meta.coordinates.wind = [lat |-> Loc1.lat, lon |-> Loc1.lon]
            /\ meta.coordinates.wave = [lat |-> Loc1.wave_point.lat,
                                        lon |-> Loc1.wave_point.lon]

\* a composite fetch whose wind part came from the remote provider and whose
\* wave part fell back on the cache: not cached, cache_fallback set
C22_Witness ==
    /\ CompositeReturned
    /\ Called(calls[1]) /\ calls[1].remote.ok
    /\ UsedDegradedFallback(calls[2])
    /\ ~last.result.value.meta.cached
    /\ last.result.value.meta.cache_fallback


\* the fetch took the degraded path: it returned with cache_fallback set
TookDegradedPath(call) ==
    /\ call.result.kind = "return"
    /\ call.result.value.meta.cache_fallback

\* the remote call of the fetch failed
RemoteFailed(call) == Called(call) /\ ~call.remote.ok

\* C25: in a fetch of any client the degraded path (a return with
\* cached=true and cache_fallback=true after a remote failure) is taken only
\* with refresh=true and only with an entry DiskCache.get accepted under the
\* TTL rule, whose data it gives back; with refresh=false a remote failure
\* is raised; and after a remote failure an entry older than the TTL is not
\* given back.
C25_DegradedOnlyOnRefresh ==
    last.op = "fetch" =>
        \A i \in DOMAIN calls :
            LET c == calls[i] IN
            /\ TookDegradedPath(c) =>
                  /\ c.refresh
                  /\ RemoteFailed(c)
                  /\ c.result.value.meta.cached
                  /\ Unexpired(c.before, ttl_seconds, now)
                  /\ c.got = Return(c.before.value.fields["data"])
                  /\ Gave(c, c.before.value.fields["data"], TRUE, TRUE)
            /\ (RemoteFailed(c) /\ ~c.refresh) =>
                  c.result = Raise(c.remote.error)
            /\ (RemoteFailed(c) /\ ~Unexpired(c.before, ttl_seconds, now)) =>
                  c.result = Raise(c.remote.error)

\* a refresh whose remote call failed gave back an entry stored on an
\* earlier day, within the TTL in force
C25_Witness ==
    /\ last.op = "fetch"
    /\ ttl_seconds # 0
    /\ \E i \in DOMAIN calls :
          /\ TookDegradedPath(calls[i]) /\ calls[i].refresh
          /\ RemoteFailed(calls[i])
          /\ calls[i].before.value.fields["timestamp"].n < now

=============================================================================
